---- MODULE Spec2Model ----
(***************************************************************************)
(* Model of the command-line tools of the Claude Skills Library.           *)
(*                                                                         *)
(* Part I   scripts/skill-installer.py: the manifest .claude-skills.json,  *)
(*          the skill directories of one target directory and the          *)
(*          commands list, install, update, status and uninstall.          *)
(* Part II  codex-cli-specialist/scripts/cross_platform_validator.py:      *)
(*          validate_skill and the exit status of main.                    *)
(* Part III devops-workflow-engineer/scripts/pipeline_analyzer.py:         *)
(*          analyze_workflow_file.                                         *)
(***************************************************************************)
EXTENDS Integers, Sequences, FiniteSets, TLC

VARIABLES
    repo,       \* repository: skill -> whether <group>/<skill>/ exists
    dirs,       \* target directory: skill -> state of target_dir/<skill>, see DirStates
    manifest,   \* content of target_dir/.claude-skills.json
    clock,      \* the next value datetime.now() returns
    last,       \* the invocation that ended last: command, exit status, output
    vdir,       \* validator: the skill directory under validation
    vstrict,    \* validator: --strict
    vout,       \* validator: the report and the exit status of the last run
    wf,         \* pipeline analyzer: the workflow file given
    wfout,      \* pipeline analyzer: what analyze_workflow_file returned
    md,         \* CLAUDE.md optimizer: the file given and the token limit
    mdout,      \* CLAUDE.md optimizer: what analyze_claudemd returned
    sfs,        \* skill scaffolder: the output directory, path -> kind of entry
    sout,       \* skill scaffolder: the invocation that ended last
    fmtext,     \* frontmatter parsers: the text given
    fmout,      \* frontmatter parsers: what each parser returned
    smin,       \* store metadata generator: the input given
    smout,      \* store metadata generator: what was generated
    cli,        \* what the invocation that ended last wrote to its output streams
    par         \* two installer processes at work at once: where each one is

vars == <<repo, dirs, manifest, clock, last, vdir, vstrict, vout,
          wf, wfout, md, mdout, sfs, sout, fmtext, fmout, smin, smout, cli, par>>
instVars == <<repo, dirs, manifest, clock, last>>
valVars == <<vdir, vstrict, vout>>
paVars == <<wf, wfout>>
coVars == <<md, mdout>>
ssVars == <<sfs, sout>>
fmVars == <<fmtext, fmout>>
smVars == <<smin, smout>>
cliVars == <<cli>>
parVars == <<par>>
toolVars == <<paVars, coVars, ssVars, fmVars, smVars, cliVars, parVars>>

\* a tool that is not part of the run: nothing given, nothing returned
NoInput == [given |-> FALSE]
NotRun == [ran |-> FALSE]
PaIdle == wf = NoInput /\ wfout = NotRun
CoIdle == md = NoInput /\ mdout = NotRun
SsIdle == sfs = NoInput /\ sout = NotRun
FmIdle == fmtext = NoInput /\ fmout = NotRun
SmIdle == smin = NoInput /\ smout = NotRun
\* the output streams are not recorded
CliIdle == cli = [tool |-> "none", ran |-> FALSE]
\* no second process
ParIdle == par = NoInput
ToolsIdle == PaIdle /\ CoIdle /\ SsIdle /\ FmIdle /\ SmIdle /\ CliIdle /\ ParIdle

(***************************************************************************)
(* Bounds                                                                  *)
(***************************************************************************)
MaxClock == 3       \* timestamps handed out are 1..MaxClock
MaxFault == 2       \* a fault hits the k-th file-system write of an invocation, k in 1..MaxFault

(***************************************************************************)
(* Part I: skill-installer.py                                              *)
(***************************************************************************)
REPO_URL == "https://github.com/borghei/Claude-Skills"

\* The skills of the repository, <group>/<skill>/SKILL.md
Skills == {"a1", "a2", "b1"}
Groups == {"A", "B"}
GroupOf == [s \in Skills |-> IF s = "b1" THEN "B" ELSE "A"]
PathOf(s) == <<GroupOf[s], s>>

NoArg == ""                         \* an omitted optional argument
SkillArgs == Skills \cup {"zz"}     \* skill names a user may type
GroupArgs == Groups \cup {"Z", NoArg}

\* target_dir/<skill> is absent ("none"), a copy of the skill as the repository holds
\* it now ("fresh"), a directory with other content ("stale": the skill changed or
\* left the repository since the copy, or the directory came from elsewhere), or the
\* remains of a failed rmtree/copytree ("partial")
DirStates == {"none", "fresh", "stale", "partial"}

\* discover_skills: the groups and skills that have a SKILL.md in the repository
discover_skills(r) == [g \in {GroupOf[s] : s \in {t \in Skills : r[t]}} |->
                          {s \in Skills : r[s] /\ GroupOf[s] = g}]

\* ---- the manifest file -------------------------------------------------
\* kind: "absent" (no file), "garbage" (not JSON), "nonobject" (JSON, but not an
\* object), "object".  An object has the key `installed` iff hasInstalled; installed
\* is the mapping in key order, one record per key; has = the keys the entry holds.
DefaultManifest == [kind |-> "object", hasInstalled |-> TRUE, installed |-> <<>>,
                    auto_update |-> FALSE, source |-> REPO_URL]
AbsentManifest == [DefaultManifest EXCEPT !.kind = "absent"]

EntryKeys == {"group", "path", "installed_at", "updated_at", "auto_update"}

\* load_manifest: the parsed file, or the default when absent or unparsable
load_manifest(file) == IF file.kind \in {"absent", "garbage"} THEN DefaultManifest ELSE file

\* save_manifest: the file holds json.dumps(manifest)
save_manifest(m) == [m EXCEPT !.kind = "object"]

\* manifest.get("installed", {})
GetInstalled(m) == IF m.hasInstalled THEN m.installed ELSE <<>>

Names(installed) == {installed[i].name : i \in 1..Len(installed)}
IndexOf(installed, s) == CHOOSE i \in 1..Len(installed) : installed[i].name = s
EntryOf(installed, s) == installed[IndexOf(installed, s)]

\* installed[s] = e: an existing key keeps its place, a new key goes last
PutEntry(installed, s, e) ==
    IF s \in Names(installed)
    THEN [installed EXCEPT ![IndexOf(installed, s)] = e]
    ELSE Append(installed, e)

\* del installed[s]
DelEntryKeepsKey(installed, s) == installed
DelEntry(installed, s) ==
    LET i == IndexOf(installed, s)
    IN  SubSeq(installed, 1, i - 1) \o SubSeq(installed, i + 1, Len(installed))

\* ---- invocation records ------------------------------------------------
\* io: the calls of load_manifest / save_manifest the invocation made, in order
Outcome(cmd, exit, raised, io) ==
    [cmd |-> cmd, exit |-> exit, raised |-> raised, io |-> io,
     updated |-> <<>>, skipped |-> <<>>]
Idle == Outcome("none", 0, FALSE, <<>>)

\* the k-th file-system write of an invocation fails iff fault = k (0: none fails)
Fails(fault, k) == fault = k

\* what a failed rmtree/copytree leaves of a directory that held `old`
WreckChoices == {"gone", "partial", "kept"}
Wreck(old, w) == IF w = "gone" THEN "none" ELSE IF w = "partial" THEN "partial" ELSE old

\* copy_skill: target_dir/<last component of skill_path> is removed and copied anew
copy_skill(d, skill_path) == [d EXCEPT ![skill_path[2]] = "fresh"]
copy_skill_failed(d, skill_path, w) ==
    [d EXCEPT ![skill_path[2]] = Wreck(d[skill_path[2]], w)]

\* ---- install ------------------------------------------------------------
\* the one-per-group check of cmd_install
GroupTakenIgnored(installed, s, g) == FALSE
GroupTaken(installed, s, g) ==
    \E i \in 1..Len(installed) :
        /\ "group" \in installed[i].has
        /\ installed[i].group = g
        /\ installed[i].name # s

NewEntry(s, now, auto) ==
    [name |-> s, group |-> GroupOf[s], path |-> PathOf(s), installed_at |-> now,
     updated_at |-> now, auto_update |-> auto, has |-> EntryKeys]

Install(s, auto, force, fault, w) ==
    LET found == s \in Skills /\ repo[s]
        m == load_manifest(manifest)
    IN  IF ~found
        THEN /\ last' = Outcome("install", 1, FALSE, <<>>)
             /\ UNCHANGED <<repo, dirs, manifest, clock>>
        ELSE IF m.kind = "nonobject"          \* manifest.get: AttributeError
        THEN /\ last' = Outcome("install", 1, TRUE, <<"load">>)
             /\ UNCHANGED <<repo, dirs, manifest, clock>>
        ELSE IF GroupTaken(GetInstalled(m), s, GroupOf[s]) /\ ~force
        THEN /\ last' = Outcome("install", 1, FALSE, <<"load">>)
             /\ UNCHANGED <<repo, dirs, manifest, clock>>
        ELSE IF Fails(fault, 1)               \* copy_skill raises
        THEN /\ dirs' = copy_skill_failed(dirs, PathOf(s), w)
             /\ last' = Outcome("install", 1, TRUE, <<"load">>)
             /\ UNCHANGED <<repo, manifest, clock>>
        ELSE IF ~m.hasInstalled               \* manifest["installed"]: KeyError
        THEN /\ clock <= MaxClock
             /\ dirs' = copy_skill(dirs, PathOf(s))
             /\ clock' = clock + 1
             /\ last' = Outcome("install", 1, TRUE, <<"load">>)
             /\ UNCHANGED <<repo, manifest>>
        ELSE IF Fails(fault, 2)               \* save_manifest raises
        THEN /\ clock <= MaxClock
             /\ dirs' = copy_skill(dirs, PathOf(s))
             /\ clock' = clock + 1
             /\ last' = Outcome("install", 1, TRUE, <<"load", "save">>)
             /\ UNCHANGED <<repo, manifest>>
        ELSE /\ clock <= MaxClock
             /\ dirs' = copy_skill(dirs, PathOf(s))
             /\ clock' = clock + 1
             /\ manifest' = save_manifest(
                    [m EXCEPT !.installed = PutEntry(m.installed, s, NewEntry(s, clock, auto)),
                              !.auto_update = (m.auto_update \/ auto)])
             /\ last' = Outcome("install", 0, FALSE, <<"load", "save">>)
             /\ UNCHANGED repo

\* ---- update -------------------------------------------------------------
\* info.get("auto_update", False)
AutoUpdateOf(e) == "auto_update" \in e.has /\ e.auto_update

\* `not info.get("auto_update", False) and not skill_filter`
SkipsNoAutoNever(e, filter) == FALSE
SkipsNoAuto(e, filter) == ~AutoUpdateOf(e) /\ filter = NoArg

\* info["updated_at"] = datetime.now(timezone.utc).isoformat()
StampInstalledAtToo(e, t) ==
    [e EXCEPT !.updated_at = t, !.installed_at = t, !.has = @ \cup {"updated_at", "installed_at"}]
StampUpdated(e, t) == [e EXCEPT !.updated_at = t, !.has = @ \cup {"updated_at"}]

\* the loop of cmd_update over manifest["installed"].items(), from entry i on;
\* st.writes counts the file-system writes made so far
RECURSIVE UpdateLoop(_, _, _)
UpdateLoop(st, i, c) ==
    IF i > Len(st.installed) \/ st.raised THEN st
    ELSE LET e == st.installed[i]
         IN  IF c.filter # NoArg /\ e.name # c.filter
             THEN UpdateLoop(st, i + 1, c)
             ELSE IF SkipsNoAuto(e, c.filter)
             THEN UpdateLoop([st EXCEPT !.skipped = Append(@, e.name)], i + 1, c)
             ELSE IF "path" \notin e.has       \* repo_root / None: TypeError
             THEN [st EXCEPT !.raised = TRUE]
             ELSE IF ~c.repo[e.path[2]]        \* not src.exists()
             THEN UpdateLoop([st EXCEPT !.skipped = Append(@, e.name)], i + 1, c)
             ELSE IF Fails(c.fault, st.writes + 1)
             THEN [st EXCEPT !.raised = TRUE,
                             !.dirs = copy_skill_failed(@, e.path, c.wreck)]
             ELSE UpdateLoop(
                    [st EXCEPT !.dirs = copy_skill(@, e.path),
                               !.writes = @ + 1,
                               !.installed[i] = StampUpdated(@, st.clock),
                               !.clock = @ + 1,
                               !.updated = Append(@, e.name)],
                    i + 1, c)

Update(filter, fault, w) ==
    LET m == load_manifest(manifest)
        res == UpdateLoop([installed |-> m.installed, dirs |-> dirs, clock |-> clock,
                           updated |-> <<>>, skipped |-> <<>>, raised |-> FALSE,
                           writes |-> 0], 1,
                          [filter |-> filter, fault |-> fault, wreck |-> w, repo |-> repo])
    IN  IF m.kind = "nonobject"               \* manifest.get: AttributeError
        THEN /\ last' = Outcome("update", 1, TRUE, <<"load">>)
             /\ UNCHANGED <<repo, dirs, manifest, clock>>
        ELSE IF GetInstalled(m) = <<>>
        THEN /\ last' = Outcome("update", 1, FALSE, <<"load">>)
             /\ UNCHANGED <<repo, dirs, manifest, clock>>
        ELSE /\ res.clock <= MaxClock + 1
             /\ dirs' = res.dirs
             /\ clock' = res.clock
             /\ UNCHANGED repo
             /\ IF res.raised
                THEN /\ last' = Outcome("update", 1, TRUE, <<"load">>)
                     /\ UNCHANGED manifest
                ELSE IF Fails(fault, res.writes + 1)      \* save_manifest raises
                THEN /\ last' = Outcome("update", 1, TRUE, <<"load", "save">>)
                     /\ UNCHANGED manifest
                ELSE /\ manifest' = save_manifest([m EXCEPT !.installed = res.installed])
                     /\ last' = [Outcome("update", 0, FALSE, <<"load", "save">>)
                                   EXCEPT !.updated = res.updated, !.skipped = res.skipped]

\* ---- status -------------------------------------------------------------
StatusReloads ==
    LET m == load_manifest(manifest)
    IN  /\ last' = Outcome("status", IF m.kind = "nonobject" THEN 1 ELSE 0,
                           m.kind = "nonobject", <<"load", "load">>)
        /\ UNCHANGED <<repo, dirs, manifest, clock>>
Status ==
    LET m == load_manifest(manifest)
    IN  /\ last' = Outcome("status", IF m.kind = "nonobject" THEN 1 ELSE 0,
                           m.kind = "nonobject", <<"load">>)
        /\ UNCHANGED <<repo, dirs, manifest, clock>>

\* ---- uninstall ----------------------------------------------------------
Uninstall(s, fault, w) ==
    LET m == load_manifest(manifest)
        rm == IF dirs[s] # "none" THEN 1 ELSE 0       \* shutil.rmtree is called iff dest exists
    IN  IF m.kind = "nonobject"               \* manifest.get: AttributeError
        THEN /\ last' = Outcome("uninstall", 1, TRUE, <<"load">>)
             /\ UNCHANGED <<repo, dirs, manifest, clock>>
        ELSE IF s \notin Names(GetInstalled(m))
        THEN /\ last' = Outcome("uninstall", 1, FALSE, <<"load">>)
             /\ UNCHANGED <<repo, dirs, manifest, clock>>
        ELSE IF rm = 1 /\ Fails(fault, 1)     \* rmtree raises
        THEN /\ dirs' = [dirs EXCEPT ![s] = Wreck(@, w)]
             /\ last' = Outcome("uninstall", 1, TRUE, <<"load">>)
             /\ UNCHANGED <<repo, manifest, clock>>
        ELSE IF Fails(fault, rm + 1)          \* save_manifest raises
        THEN /\ dirs' = [dirs EXCEPT ![s] = "none"]
             /\ last' = Outcome("uninstall", 1, TRUE, <<"load", "save">>)
             /\ UNCHANGED <<repo, manifest, clock>>
        ELSE /\ dirs' = [dirs EXCEPT ![s] = "none"]
             /\ manifest' = save_manifest([m EXCEPT !.installed = DelEntry(@, s)])
             /\ last' = Outcome("uninstall", 0, FALSE, <<"load", "save">>)
             /\ UNCHANGED <<repo, clock>>

\* ---- list ---------------------------------------------------------------
List(g) ==
    /\ last' = Outcome("list",
                       IF g # NoArg /\ g \notin DOMAIN discover_skills(repo) THEN 1 ELSE 0,
                       FALSE, <<>>)
    /\ UNCHANGED <<repo, dirs, manifest, clock>>

(***************************************************************************)
(* Part II: cross_platform_validator.py                                    *)
(***************************************************************************)
\* ValidationResult(check, platform, passed, message, severity = "error")
Passed(check, platform) ==
    [check |-> check, platform |-> platform, passed |-> TRUE, severity |-> "error"]
Failed(check, platform, severity) ==
    [check |-> check, platform |-> platform, passed |-> FALSE, severity |-> severity]

\* The skill directory, by what validate_skill reads of it:
\*   skillMd  "absent" | "undecodable" (not UTF-8) | "nofm" (no valid frontmatter) | "fm"
\*   name, license: the frontmatter has a non-empty value for the key
\*   desc     "none" | "plain" | "discovery" (matches one of discovery_patterns)
\*   scripts  "nodir" | "nopy" | "py";  refs, assets: the directory exists
\*   req      requirements.txt: "absent" | "nodeps" | "deps"
\*   yaml     agents/openai.yaml: "absent" | "undecodable" | "invalid" | "valid"
\*   yname    its name: "none" | "same" (as the skill name) | "other"
\*   ydesc    it has a description;  yinstr  "none" | "short" (<= 50 chars) | "long"
\*   tools    its tools, each "ok" (script exists) | "missing" | "noscript" (no scripts/ path)
\*   badFile  some other .md/.yaml/.yml/.py file is not UTF-8;  big: 1 MB or more
ToolLists == {<<>>, <<"ok">>, <<"missing">>, <<"noscript">>, <<"ok", "missing">>}
BlankFrontmatter == [name |-> FALSE, desc |-> "none", license |-> FALSE]
BlankYaml == [yname |-> "none", ydesc |-> FALSE, yinstr |-> "none", tools |-> <<>>]
SkillMdStates ==
    {[skillMd |-> k, fm |-> BlankFrontmatter] : k \in {"absent", "undecodable", "nofm"}}
    \cup {[skillMd |-> "fm", fm |-> f] :
            f \in [name : BOOLEAN, desc : {"none", "plain", "discovery"}, license : BOOLEAN]}
YamlStates ==
    {[yaml |-> k, y |-> BlankYaml] : k \in {"absent", "undecodable", "invalid"}}
    \cup {[yaml |-> "valid", y |-> d] :
            d \in [yname : {"none", "same", "other"}, ydesc : BOOLEAN,
                   yinstr : {"none", "short", "long"}, tools : ToolLists]}
EmptyDir ==
    [isDir |-> TRUE, md |-> [skillMd |-> "absent", fm |-> BlankFrontmatter],
     yml |-> [yaml |-> "absent", y |-> BlankYaml], scripts |-> "nodir", refs |-> FALSE,
     assets |-> FALSE, req |-> "absent", badFile |-> FALSE, big |-> FALSE]
NotADir == [EmptyDir EXCEPT !.isDir = FALSE]

\* the frontmatter validate_skill works with: {} unless SKILL.md parsed
Frontmatter(d) == IF d.md.skillMd = "fm" THEN d.md.fm ELSE BlankFrontmatter
\* yaml_data: {} unless agents/openai.yaml was read
YamlData(d) == IF d.yml.yaml \in {"valid", "invalid"} THEN d.yml.y ELSE BlankYaml

\* Check 1: SKILL.md exists
SkillMdExistsAsWarning(d) ==
    IF d.md.skillMd # "absent"
    THEN Passed("skill_md_exists", "claude-code")
    ELSE Failed("skill_md_exists", "claude-code", "warning")
SkillMdExists(d) ==
    IF d.md.skillMd # "absent"
    THEN Passed("skill_md_exists", "claude-code")
    ELSE Failed("skill_md_exists", "claude-code", "error")

\* Checks 1-9: Claude Code compatibility
ClaudeChecks(d) ==
    LET fm == Frontmatter(d)
    IN  <<SkillMdExists(d)>>
     \o (IF d.md.skillMd = "absent" THEN <<>>
         ELSE IF d.md.skillMd = "fm" THEN <<Passed("valid_frontmatter", "claude-code")>>
         ELSE <<Failed("valid_frontmatter", "claude-code", "error")>>)
     \o <<IF fm.name THEN Passed("name_field", "claude-code")
          ELSE Failed("name_field", "claude-code", "error")>>
     \o (IF fm.desc = "none" THEN <<Failed("description_exists", "claude-code", "error")>>
         ELSE <<Passed("description_exists", "claude-code"),
                IF fm.desc = "discovery" THEN Passed("description_format", "claude-code")
                ELSE Failed("description_format", "claude-code", "warning")>>)
     \o <<IF fm.license THEN Passed("license_field", "claude-code")
          ELSE Failed("license_field", "claude-code", "warning")>>
     \o <<IF d.scripts = "py" THEN Passed("scripts_dir", "claude-code")
          ELSE Failed("scripts_dir", "claude-code", "warning")>>
     \o <<IF d.refs THEN Passed("references_dir", "claude-code")
          ELSE Failed("references_dir", "claude-code", "info")>>
     \o <<IF d.assets THEN Passed("assets_dir", "claude-code")
          ELSE Failed("assets_dir", "claude-code", "info")>>
     \o (IF d.req = "absent" THEN <<Passed("no_heavy_deps", "claude-code")>>
         ELSE IF d.req = "deps" THEN <<Failed("no_heavy_deps", "claude-code", "warning")>>
         ELSE <<>>)

\* Check 15: one result per tool whose command names a scripts/ path
RECURSIVE ToolChecks(_)
ToolChecks(tools) ==
    IF tools = <<>> THEN <<>>
    ELSE (IF Head(tools) = "ok" THEN <<Passed("tool_script", "codex-cli")>>
          ELSE IF Head(tools) = "missing" THEN <<Failed("tool_script", "codex-cli", "error")>>
          ELSE <<>>)
         \o ToolChecks(Tail(tools))

\* Checks 10-15: Codex CLI compatibility
CodexChecks(d) ==
    LET y == YamlData(d)
        isFile == d.yml.yaml # "absent"
    IN  <<IF isFile THEN Passed("openai_yaml_exists", "codex-cli")
          ELSE Failed("openai_yaml_exists", "codex-cli", "error")>>
     \o (IF ~isFile THEN <<>>
         ELSE IF d.yml.yaml = "valid" THEN <<Passed("openai_yaml_valid", "codex-cli")>>
         ELSE <<Failed("openai_yaml_valid", "codex-cli", "error")>>)
     \o (IF y.yname # "none"
         THEN <<Passed("yaml_name", "codex-cli"),
                IF y.yname = "other" THEN Failed("name_match", "cross-platform", "warning")
                ELSE Passed("name_match", "cross-platform")>>
         ELSE IF isFile THEN <<Failed("yaml_name", "codex-cli", "error")>>
         ELSE <<>>)
     \o (IF y.ydesc THEN <<Passed("yaml_description", "codex-cli")>>
         ELSE IF isFile THEN <<Failed("yaml_description", "codex-cli", "error")>>
         ELSE <<>>)
     \o (IF y.yinstr = "long" THEN <<Passed("yaml_instructions", "codex-cli")>>
         ELSE IF y.yinstr = "short" \/ isFile
         THEN <<Failed("yaml_instructions", "codex-cli", "warning")>>
         ELSE <<>>)
     \o ToolChecks(y.tools)

\* Checks 16-17: encoding and size
CrossChecks(d) ==
    <<IF d.md.skillMd = "undecodable" \/ d.yml.yaml = "undecodable" \/ d.badFile
      THEN Failed("utf8_encoding", "cross-platform", "error")
      ELSE Passed("utf8_encoding", "cross-platform"),
      IF d.big THEN Failed("skill_size", "cross-platform", "warning")
      ELSE Passed("skill_size", "cross-platform")>>

Count(checks, passed, sev) ==
    Cardinality({i \in 1..Len(checks) :
                    checks[i].passed = passed /\ (passed \/ checks[i].severity = sev)})

\* the verdict of validate_skill
IsCompatibleLenient(errors, warnings, strict) == errors = 0
IsCompatible(errors, warnings, strict) ==
    IF strict THEN errors = 0 /\ warnings = 0 ELSE errors = 0

validate_skill(d, strict) ==
    LET checks == ClaudeChecks(d) \o CodexChecks(d) \o CrossChecks(d)
        errors == Count(checks, FALSE, "error")
        warnings == Count(checks, FALSE, "warning")
    IN  [compatible |-> IsCompatible(errors, warnings, strict),
         total_checks |-> Len(checks), passed |-> Count(checks, TRUE, "error"),
         errors |-> errors, warnings |-> warnings, info |-> Count(checks, FALSE, "info"),
         checks |-> checks]

NoReport == [compatible |-> FALSE, total_checks |-> 0, passed |-> 0, errors |-> 0,
             warnings |-> 0, info |-> 0, checks |-> <<>>]
ValIdle == [ran |-> FALSE, hasReport |-> FALSE, exit |-> 0, report |-> NoReport]

\* main of the validator
ExitOfAlwaysZero(report) == 0
ExitOf(report) == IF ~report.compatible THEN 1 ELSE 0

ValidatorRun ==
    /\ ~vout.ran
    /\ vout' = IF ~vdir.isDir
               THEN [ran |-> TRUE, hasReport |-> FALSE, exit |-> 1, report |-> NoReport]
               ELSE LET report == validate_skill(vdir, vstrict)
                    IN  [ran |-> TRUE, hasReport |-> TRUE, exit |-> ExitOf(report),
                         report |-> report]
    /\ UNCHANGED <<vdir, vstrict>>
\* an invocation whose output is not recorded
ValidatorMain == ValidatorRun /\ UNCHANGED <<instVars, toolVars>>

(***************************************************************************)
(* Part I, continued: the invocations and the specifications               *)
(***************************************************************************)
\* ---- the repository changes between invocations (git pull, a skill removed) --
\* a skill's files change, a skill leaves the repository, or it comes (back) into it
RepoChange ==
    /\ \E s \in Skills :
          \/ /\ repo[s] /\ dirs[s] = "fresh"
             /\ dirs' = [dirs EXCEPT ![s] = "stale"]
             /\ UNCHANGED repo
          \/ /\ repo[s]
             /\ repo' = [repo EXCEPT ![s] = FALSE]
             /\ dirs' = [dirs EXCEPT ![s] = IF @ = "fresh" THEN "stale" ELSE @]
          \/ /\ ~repo[s]
             /\ repo' = [repo EXCEPT ![s] = TRUE]
             /\ UNCHANGED dirs
    /\ UNCHANGED <<manifest, clock, last>>

\* ---- invocations of main -------------------------------------------------
CmdList == (\E g \in GroupArgs : List(g)) /\ UNCHANGED <<valVars, toolVars>>
CmdInstall ==
    (\E s \in SkillArgs, auto \in BOOLEAN : Install(s, auto, FALSE, 0, "gone"))
        /\ UNCHANGED <<valVars, toolVars>>
CmdInstallForce ==
    (\E s \in SkillArgs, auto \in BOOLEAN : Install(s, auto, TRUE, 0, "gone"))
        /\ UNCHANGED <<valVars, toolVars>>
CmdUpdate == (\E f \in SkillArgs \cup {NoArg} : Update(f, 0, "gone")) /\ UNCHANGED <<valVars, toolVars>>
CmdStatus == Status /\ UNCHANGED <<valVars, toolVars>>
CmdUninstall == (\E s \in SkillArgs : Uninstall(s, 0, "gone")) /\ UNCHANGED <<valVars, toolVars>>
EnvRepoChange == RepoChange /\ UNCHANGED <<valVars, toolVars>>

\* invocations during which one file-system write fails
CmdInstallFault ==
    (\E s \in Skills, auto \in BOOLEAN, k \in 1..2, w \in WreckChoices :
        Install(s, auto, FALSE, k, w)) /\ UNCHANGED <<valVars, toolVars>>
CmdUpdateFault ==
    (\E f \in Skills \cup {NoArg}, k \in 1..MaxFault, w \in WreckChoices :
        Update(f, k, w)) /\ UNCHANGED <<valVars, toolVars>>
CmdUninstallFault ==
    (\E s \in Skills, k \in 1..2, w \in WreckChoices : Uninstall(s, k, w))
        /\ UNCHANGED <<valVars, toolVars>>

InitRepo == [s \in Skills |-> TRUE]
NoDirs == [s \in Skills |-> "none"]

\* a fresh project: no manifest, no skill directory
Init ==
    /\ repo = InitRepo
    /\ dirs = NoDirs
    /\ manifest = AbsentManifest
    /\ clock = 1
    /\ last = Idle
    /\ vdir = ValIdle /\ vstrict = FALSE /\ vout = ValIdle
    /\ ToolsIdle

NextNoForce ==
    \/ CmdList
    \/ CmdInstall
    \/ CmdUpdate
    \/ CmdStatus
    \/ CmdUninstall
    \/ EnvRepoChange

Next == NextNoForce \/ CmdInstallForce

NextFault ==
    \/ CmdInstall
    \/ CmdUpdate
    \/ CmdUninstall
    \/ CmdInstallFault
    \/ CmdUpdateFault
    \/ CmdUninstallFault

\* a step that is one run of main
Invocation ==
    \/ CmdList \/ CmdInstall \/ CmdInstallForce \/ CmdUpdate \/ CmdStatus \/ CmdUninstall
    \/ CmdInstallFault \/ CmdUpdateFault \/ CmdUninstallFault

\* ---- a project found in any state: every shape of manifest file, any directories --
StartEntries(s) ==
    {[NewEntry(s, 0, auto) EXCEPT !.has = EntryKeys \ miss] :
        auto \in BOOLEAN, miss \in {{}, {"path"}, {"auto_update"}, {"group"}}}
StartInstalled ==
    {<<>>} \cup {<<e>> : e \in UNION {StartEntries(s) : s \in Skills}}
           \cup {<<NewEntry("a1", 0, TRUE), e>> : e \in StartEntries("b1")}
StartManifests ==
    {AbsentManifest,
     [DefaultManifest EXCEPT !.kind = "garbage"],
     [DefaultManifest EXCEPT !.kind = "nonobject"],
     [DefaultManifest EXCEPT !.hasInstalled = FALSE]}
    \cup {[DefaultManifest EXCEPT !.installed = i] : i \in StartInstalled}

InitAny ==
    /\ repo = InitRepo
    /\ dirs \in [Skills -> {"none", "stale"}]
    /\ manifest \in StartManifests
    /\ clock = 1
    /\ last = Idle
    /\ vdir = ValIdle /\ vstrict = FALSE /\ vout = ValIdle
    /\ ToolsIdle

NextAny ==
    \/ CmdInstall
    \/ CmdUpdate
    \/ CmdStatus
    \/ CmdUninstall

Spec == Init /\ [][Next]_vars
SpecAny == InitAny /\ [][NextAny]_vars
SpecNoForce == Init /\ [][NextNoForce]_vars
SpecFault == Init /\ [][NextFault]_vars

\* ---- the validator, run once on any skill directory ----------------------
InitValidate ==
    /\ repo = InitRepo /\ dirs = NoDirs /\ manifest = AbsentManifest
    /\ clock = 1 /\ last = Idle
    /\ \/ vdir = NotADir
       \/ vdir \in [isDir : {TRUE}, md : SkillMdStates, yml : YamlStates,
                    scripts : {"nodir", "nopy", "py"}, refs : BOOLEAN, assets : BOOLEAN,
                    req : {"absent", "nodeps", "deps"}, badFile : BOOLEAN, big : BOOLEAN]
    /\ vstrict \in BOOLEAN
    /\ vout = ValIdle
    /\ ToolsIdle

NextValidate == ValidatorMain

SpecValidate == InitValidate /\ [][NextValidate]_vars

(***************************************************************************)
(* Part III: pipeline_analyzer.py                                          *)
(***************************************************************************)
\* A workflow file is the sequence of its lines; a line is its indentation
\* (len(line) - len(line.lstrip())) and its stripped text.
Ln(i, t) == [indent |-> i, text |-> t]

\* ---- the texts the lines are drawn from, and what the analyzer's string tests
\* ---- find in each one
JobName == <<"build", "test", "lint", "deploy", "release">>
JobHeader == <<"build:", "test:", "lint:", "deploy:", "release:">>
NeedsLine == <<"needs: build", "needs: test", "needs: lint", "needs: deploy",
               "needs: release">>
CommentTexts == {"# concurrency is limited by the caller"}
DashTexts == {"- uses: actions/checkout@v4", "- uses: actions/checkout@v2",
              "- uses: actions/setup-python@v5"}
ColonEndTexts ==
    {"on:", "push:", "paths:", "concurrency:", "permissions:", "jobs:", "steps:", "with:",
     "env:"}
    \cup {JobHeader[i] : i \in DOMAIN JobHeader}

\* `needle in text`, for the needles the analyzer looks for
Substrings(text) ==
    CASE text \in {"concurrency:", "# concurrency is limited by the caller"}
                                                  -> {"concurrency"}
      [] text = "timeout-minutes: 15"             -> {"timeout-minutes"}
      [] text = "push:"                           -> {"push"}
      [] text = "paths:"                          -> {"paths"}
      [] text = "permissions:"                    -> {"permissions:"}
      [] text = "runs-on: ubuntu-latest"          -> {"runs-on: ubuntu-latest"}
      [] text \in {"- uses: actions/checkout@v4", "- uses: actions/checkout@v2"}
                                                  -> {"actions/checkout@"}
      [] text = "- uses: actions/setup-python@v5" -> {"actions/setup-python@"}
      [] text = "cache: pip"                      -> {"cache:"}
      [] text = "fetch-depth: 0"                  -> {"fetch-depth"}
      [] OTHER                                    -> {}
Contains(lines, needle) == \E i \in DOMAIN lines : needle \in Substrings(lines[i].text)

StartsWith(text, prefix) ==
    CASE prefix = "jobs:" -> text = "jobs:"
      [] prefix = "on:"   -> text = "on:"
      [] prefix = "-"     -> text \in DashTexts
      [] prefix = "#"     -> text \in CommentTexts
      [] OTHER            -> FALSE
EndsWithColon(text) == text \in ColonEndTexts
\* stripped.rstrip(":")
RStripColon(text) ==
    IF \E i \in DOMAIN JobHeader : JobHeader[i] = text
    THEN JobName[CHOOSE i \in DOMAIN JobHeader : JobHeader[i] = text]
    ELSE CASE text = "on:" -> "on" [] text = "push:" -> "push" [] text = "paths:" -> "paths"
           [] text = "concurrency:" -> "concurrency" [] text = "permissions:" -> "permissions"
           [] text = "jobs:" -> "jobs" [] text = "steps:" -> "steps" [] text = "with:" -> "with"
           [] text = "env:" -> "env"
           [] OTHER -> text

\* ---- _extract_jobs -------------------------------------------------------
\* jobs is a dict: an assignment to a key already present keeps the key's place
PutJob(jobs, name, content) ==
    IF \E i \in DOMAIN jobs : jobs[i].name = name
    THEN [i \in DOMAIN jobs |-> IF jobs[i].name = name
                                THEN [name |-> name, content |-> content] ELSE jobs[i]]
    ELSE Append(jobs, [name |-> name, content |-> content])

\* `if current_job:` is false for None and for the empty name
SaveJob(st) ==
    IF st.has_job /\ st.current_job # ""
    THEN PutJob(st.jobs, st.current_job, st.current_lines) ELSE st.jobs

RECURSIVE ExtractLoop(_, _, _)
ExtractLoop(lines, i, st) ==
    IF i > Len(lines) THEN st
    ELSE LET stripped == lines[i].text
             indent == lines[i].indent
         IN  IF StartsWith(stripped, "jobs:")
             THEN ExtractLoop(lines, i + 1,
                      [st EXCEPT !.in_jobs = TRUE, !.job_indent = indent + 2])
             ELSE IF ~st.in_jobs THEN ExtractLoop(lines, i + 1, st)
             ELSE IF /\ indent = st.job_indent /\ EndsWithColon(stripped)
                     /\ ~StartsWith(stripped, "-") /\ ~StartsWith(stripped, "#")
             THEN ExtractLoop(lines, i + 1,
                      [st EXCEPT !.jobs = SaveJob(st), !.has_job = TRUE,
                                 !.current_job = RStripColon(stripped),
                                 !.current_lines = <<>>])
             ELSE IF st.has_job
             THEN IF indent < st.job_indent /\ stripped # "" /\ ~StartsWith(stripped, "#")
                  THEN st
                  ELSE ExtractLoop(lines, i + 1,
                           [st EXCEPT !.current_lines = Append(@, lines[i])])
             ELSE ExtractLoop(lines, i + 1, st)

\* the jobs in the order of their first header line, each with the lines of its block
_extract_jobs(content) ==
    SaveJob(ExtractLoop(content, 1,
        [in_jobs |-> FALSE, job_indent |-> -1, has_job |-> FALSE, current_job |-> "",
         current_lines |-> <<>>, jobs |-> <<>>]))

\* ---- _extract_section ----------------------------------------------------
RECURSIVE SectionLoop(_, _, _, _)
SectionLoop(lines, key, i, st) ==
    IF i > Len(lines) THEN st.section_lines
    ELSE LET stripped == lines[i].text
             indent == lines[i].indent
         IN  IF StartsWith(stripped, key)
             THEN SectionLoop(lines, key, i + 1,
                      [in_section |-> TRUE, section_indent |-> indent,
                       section_lines |-> Append(st.section_lines, lines[i])])
             ELSE IF st.in_section
             THEN IF indent <= st.section_indent /\ stripped # ""
                     /\ ~StartsWith(stripped, "#")
                  THEN st.section_lines
                  ELSE SectionLoop(lines, key, i + 1,
                           [st EXCEPT !.section_lines = Append(@, lines[i])])
             ELSE SectionLoop(lines, key, i + 1, st)
_extract_section(content, section_key) ==
    SectionLoop(content, section_key, 1,
        [in_section |-> FALSE, section_indent |-> -1, section_lines |-> <<>>])

\* ---- the needs map and _trace_chain --------------------------------------
\* re.search(r"needs:\s*\[?([^\]\n]+)", job_content) and the split at commas: every
\* needs line of the model matches this first pattern, so the second is not reached
DepsOfText(text) ==
    IF \E i \in DOMAIN NeedsLine : NeedsLine[i] = text
    THEN <<JobName[CHOOSE i \in DOMAIN NeedsLine : NeedsLine[i] = text]>>
    ELSE <<>>
DepsOf(job_content) ==
    LET hits == {i \in DOMAIN job_content : DepsOfText(job_content[i].text) # <<>>}
    IN  IF hits = {} THEN <<>>
        ELSE DepsOfText(job_content[CHOOSE i \in hits : \A j \in hits : i <= j].text)
\* needs_map, in the order of the jobs: job name -> its dependencies
NeedsMap(jobs) == [i \in DOMAIN jobs |-> [name |-> jobs[i].name, deps |-> DepsOf(jobs[i].content)]]
HasKey(needs_map, j) == \E i \in DOMAIN needs_map : needs_map[i].name = j
Lookup(needs_map, j) == needs_map[CHOOSE i \in DOMAIN needs_map : needs_map[i].name = j].deps

\* _trace_chain: walks backwards from start_job, adds every parent walked over to
\* visited; returns the chain and the visited set
RECURSIVE TraceLoop(_, _, _, _)
TraceLoop(needs_map, current, chain, visited) ==
    IF HasKey(needs_map, current) /\ Len(Lookup(needs_map, current)) = 1
    THEN LET parent == Lookup(needs_map, current)[1]
         IN  IF parent \in visited \/ parent = current
             THEN [chain |-> chain, visited |-> visited]
             ELSE TraceLoop(needs_map, parent, <<parent>> \o chain, visited \cup {parent})
    ELSE [chain |-> chain, visited |-> visited]
_trace_chain(start_job, needs_map, visited) ==
    TraceLoop(needs_map, start_job, <<start_job>>, visited)

\* a chain of this many jobs or more is reported (line 251)
LongChain == 4

Finding(severity, category, title, about) ==
    [severity |-> severity, category |-> category, title |-> title, about |-> about]

\* the loop of lines 248-259: the first job whose chain has four jobs or more
RECURSIVE ChainLoop(_, _, _)
ChainLoop(needs_map, i, visited) ==
    IF i > Len(needs_map) THEN <<>>
    ELSE LET t == _trace_chain(needs_map[i].name, needs_map, visited)
         IN  IF Len(t.chain) >= LongChain
             THEN <<Finding("info", "performance", "Long sequential chain detected", t.chain)>>
             ELSE ChainLoop(needs_map, i + 1, t.visited)
ChainFindings(needs_map) ==
    LET chain_jobs == {i \in DOMAIN needs_map : Len(needs_map[i].deps) = 1}
    IN  IF Cardinality(chain_jobs) > 2 THEN ChainLoop(needs_map, 1, {}) ELSE <<>>

\* ---- the regular expressions of the remaining checks ---------------------
\* re.findall(r"fetch-depth:\s*[01]", content)
ShallowCheckoutCount(content) ==
    Cardinality({i \in DOMAIN content : content[i].text = "fetch-depth: 0"})
\* content.count("actions/checkout@")
CheckoutCount(content) ==
    Cardinality({i \in DOMAIN content : "actions/checkout@" \in Substrings(content[i].text)})
\* deprecated_patterns, in their order, with the first text each one matches
DeprecatedPatterns ==
    <<"actions/checkout@v[12]", "actions/setup-python@v[1-3]", "actions/setup-node@v[1-3]",
      "actions/cache@v[1-3]", "actions/upload-artifact@v[1-3]",
      "actions/download-artifact@v[1-3]">>
MatchesOf(pattern, text) ==
    IF pattern = "actions/checkout@v[12]" /\ text = "- uses: actions/checkout@v2"
    THEN <<"actions/checkout@v2">> ELSE <<>>
FindAll(pattern, content) ==
    LET hits == {i \in DOMAIN content : MatchesOf(pattern, content[i].text) # <<>>}
    IN  IF hits = {} THEN <<>>
        ELSE MatchesOf(pattern, content[CHOOSE i \in hits : \A j \in hits : i <= j].text)
\* suspicious_patterns: a credential-like key with a quoted literal of 9 characters or more
LooksHardcoded(text) == text = "token: 'ghp_0123456789'"

RECURSIVE TimeoutFindings(_, _)
TimeoutFindings(jobs, i) ==
    IF i > Len(jobs) THEN <<>>
    ELSE (IF ~Contains(jobs[i].content, "timeout-minutes")
          THEN <<Finding("warning", "cost", "No timeout on job", <<jobs[i].name>>)>>
          ELSE <<>>) \o TimeoutFindings(jobs, i + 1)

RECURSIVE DeprecatedFindings(_, _)
DeprecatedFindings(content, k) ==
    IF k > Len(DeprecatedPatterns) THEN <<>>
    ELSE LET matches == FindAll(DeprecatedPatterns[k], content)
         IN  (IF matches # <<>>
              THEN <<Finding("warning", "maintenance", "Outdated action", <<matches[1]>>)>>
              ELSE <<>>) \o DeprecatedFindings(content, k + 1)

\* findings.sort(key=SEVERITY_ORDER): a stable sort, critical < warning < info
SEVERITY_ORDER == <<"critical", "warning", "info">>
SortBySeverity(fs) ==
    SelectSeq(fs, LAMBDA f : f.severity = SEVERITY_ORDER[1])
    \o SelectSeq(fs, LAMBDA f : f.severity = SEVERITY_ORDER[2])
    \o SelectSeq(fs, LAMBDA f : f.severity = SEVERITY_ORDER[3])
    \o SelectSeq(fs, LAMBDA f : \A k \in DOMAIN SEVERITY_ORDER : f.severity # SEVERITY_ORDER[k])

If(cond, finding) == IF cond THEN <<finding>> ELSE <<>>

\* the concurrency check of lines 165-173
ConcurrencyFindingsAsInfo(content) ==
    If(~Contains(content, "concurrency"),
       Finding("info", "cost", "No concurrency group", <<>>))
ConcurrencyFindings(content) ==
    If(~Contains(content, "concurrency"),
       Finding("warning", "cost", "No concurrency group", <<>>))

\* analyze_workflow_file: the findings returned. file is [readable, lines]. The
\* cost estimate of file_info is a function of the text that adds no finding and is
\* left out.
analyze_workflow_file(file) ==
    IF ~file.readable
    THEN <<Finding("critical", "file", "Cannot read file", <<>>)>>
    ELSE LET content == file.lines
             jobs_in_file == _extract_jobs(content)
             has_cache == Contains(content, "actions/cache@") \/ Contains(content, "cache:")
             has_setup_action ==
                 \E a \in {"actions/setup-python@", "actions/setup-node@",
                           "actions/setup-go@", "actions/setup-java@"} : Contains(content, a)
             on_section == _extract_section(content, "on:")
         IN  SortBySeverity(
               ConcurrencyFindings(content)
               \o TimeoutFindings(jobs_in_file, 1)
               \o If(has_setup_action /\ ~has_cache,
                     Finding("warning", "performance", "No dependency caching detected", <<>>))
               \o If(/\ CheckoutCount(content) > 0 /\ ShallowCheckoutCount(content) = 0
                     /\ ~Contains(content, "fetch-depth")
                     /\ ~Contains(content, "git log") /\ ~Contains(content, "git diff")
                     /\ ~Contains(content, "git blame"),
                     Finding("info", "performance", "Consider shallow checkout", <<>>))
               \o ChainFindings(NeedsMap(jobs_in_file))
               \o If(/\ on_section # <<>>
                     /\ ~Contains(on_section, "paths") /\ ~Contains(on_section, "paths-ignore")
                     /\ (Contains(on_section, "push") \/ Contains(on_section, "pull_request")),
                     Finding("info", "cost", "No path filters on triggers", <<>>))
               \o DeprecatedFindings(content, 1)
               \o If(\E i \in DOMAIN content : LooksHardcoded(content[i].text),
                     Finding("critical", "security", "Possible hardcoded secret", <<>>))
               \o If(~Contains(content, "permissions:"),
                     Finding("warning", "security", "No permissions block", <<>>))
               \o If(Contains(content, "runs-on: ubuntu-latest"),
                     Finding("info", "maintenance", "Using ubuntu-latest (unpinned)", <<>>)))

\* ---- the workflow files given --------------------------------------------
MaxJobs == 2        \* a workflow has at most MaxJobs jobs

TriggerLines(on) ==
    CASE on = "push"     -> <<Ln(0, "on:"), Ln(2, "push:")>>
      [] on = "filtered" -> <<Ln(0, "on:"), Ln(2, "push:"), Ln(4, "paths:")>>
      [] OTHER           -> <<>>
ConcurrencyLines(conc) ==
    CASE conc = "key"     -> <<Ln(0, "concurrency:")>>
      [] conc = "comment" -> <<Ln(0, "# concurrency is limited by the caller")>>
      [] OTHER            -> <<>>
StepLines(steps) ==
    CASE steps = "checkout" -> <<Ln(4, "steps:"), Ln(6, "- uses: actions/checkout@v4")>>
      [] steps = "old"      -> <<Ln(4, "steps:"), Ln(6, "- uses: actions/checkout@v2"),
                                 Ln(8, "with:"), Ln(10, "fetch-depth: 0")>>
      [] steps = "setup"    -> <<Ln(4, "steps:"), Ln(6, "- uses: actions/setup-python@v5")>>
      [] steps = "cached"   -> <<Ln(4, "steps:"), Ln(6, "- uses: actions/setup-python@v5"),
                                 Ln(8, "with:"), Ln(10, "cache: pip")>>
      [] steps = "secret"   -> <<Ln(4, "env:"), Ln(6, "token: 'ghp_0123456789'")>>
      [] OTHER              -> <<>>
StepKinds == {"none", "checkout", "old", "setup", "cached", "secret"}

\* job k of a workflow: its header, runs-on, and as chosen a timeout and a needs line
JobLines(k, timeout, needs) ==
    <<Ln(2, JobHeader[k]), Ln(4, "runs-on: ubuntu-latest")>>
    \o (IF timeout THEN <<Ln(4, "timeout-minutes: 15")>> ELSE <<>>)
    \o (IF needs > 0 THEN <<Ln(4, NeedsLine[needs])>> ELSE <<>>)
RECURSIVE JobsLines(_, _, _)
JobsLines(js, k, steps) ==
    IF k > Len(js) THEN <<>>
    ELSE JobLines(k, js[k].timeout, js[k].needs)
         \o (IF k = 1 THEN StepLines(steps) ELSE <<>>)
         \o JobsLines(js, k + 1, steps)
Workflow(on, conc, perm, js, steps) ==
    <<Ln(0, "name: CI")>> \o TriggerLines(on) \o ConcurrencyLines(conc)
    \o (IF perm THEN <<Ln(0, "permissions:")>> ELSE <<>>)
    \o (IF js = <<>> THEN <<>> ELSE <<Ln(0, "jobs:")>> \o JobsLines(js, 1, steps))
\* the file given: whether it can be read, its lines, and (for the statements about
\* it, not read by the analyzer) the jobs it was written with
Unreadable == [given |-> TRUE, readable |-> FALSE, lines |-> <<>>, conc |-> "none",
               jobs |-> <<>>]

\* main on one workflow file
AnalyzeWorkflow ==
    /\ ~wfout.ran
    /\ wfout' = [ran |-> TRUE, findings |-> analyze_workflow_file(wf)]
    /\ UNCHANGED <<wf, instVars, valVars, coVars, ssVars, fmVars, smVars, cliVars, parVars>>

InstIdle ==
    /\ repo = InitRepo /\ dirs = NoDirs /\ manifest = AbsentManifest
    /\ clock = 1 /\ last = Idle
ValidatorIdle == vdir = ValIdle /\ vstrict = FALSE /\ vout = ValIdle

InitAnalyze ==
    /\ InstIdle /\ ValidatorIdle /\ CoIdle /\ SsIdle /\ FmIdle /\ SmIdle /\ CliIdle /\ ParIdle
    /\ \/ wf = Unreadable
       \/ \E n \in 0..MaxJobs :
            \E js \in [1..n -> [timeout : BOOLEAN, needs : 0..n]] :
              \E on \in {"none", "push", "filtered"}, conc \in {"none", "key", "comment"},
                 perm \in BOOLEAN, steps \in StepKinds :
                /\ \A k \in 1..n : js[k].needs # k
                /\ wf = [given |-> TRUE, readable |-> TRUE,
                         lines |-> Workflow(on, conc, perm, js, steps),
                         conc |-> conc, jobs |-> js]
    /\ wfout = NotRun
NextAnalyze == AnalyzeWorkflow
SpecAnalyze == InitAnalyze /\ [][NextAnalyze]_vars

(***************************************************************************)
(* Part IV: claudemd_optimizer.py                                          *)
(***************************************************************************)
\* A CLAUDE.md text is the sequence of its lines (text.split("\n")). A line is one of
\* the lines below, described by what the optimizer measures of it: its length in
\* characters, the heading it is (level 0: not a heading), how it starts, the generic
\* and verbose patterns it matches and the sentence of more than 20 characters it is.
MdLine(len, level, title, start, generic, verbose, sentence) ==
    [len |-> len, level |-> level, title |-> title, start |-> start,
     generic |-> generic, verbose |-> verbose, sentence |-> sentence]
BlankLine == MdLine(0, 0, "", "blank", {}, {}, "")
FenceLine == MdLine(3, 0, "", "---", {}, {}, "")
\* "# Project", "## Overview", "## Testing", "## Architecture"
H1Project == MdLine(9, 1, "project", "#", {}, {}, "")
H2Overview == MdLine(11, 2, "overview", "#", {}, {}, "")
H2Testing == MdLine(10, 2, "testing", "#", {}, {}, "")
H2Architecture == MdLine(15, 2, "architecture", "#", {}, {}, "")
\* "Run make test before every commit to main."
ShortLine == MdLine(42, 0, "", "plain", {}, {}, "run make test before every commit to main")
\* "- Use tabs."
BulletLine == MdLine(11, 0, "", "- ", {}, {}, "")
\* a paragraph of 840 characters that says "follow best practices" and "in order to"
LongLine == MdLine(840, 0, "", "plain", {"follow best practices"}, {"in order to"},
                   "a paragraph of 840 characters")
\* a paragraph of 2100 characters
HugeLine == MdLine(2100, 0, "", "plain", {}, {}, "a paragraph of 2100 characters")
MdLines == {BlankLine, FenceLine, H1Project, H2Overview, H2Testing, H2Architecture,
            ShortLine, BulletLine, LongLine, HugeLine}

RECURSIVE SumLen(_)
SumLen(lines) == IF lines = <<>> THEN 0 ELSE Head(lines).len + SumLen(Tail(lines))
\* len("\n".join(lines))
JoinedLen(lines) == IF lines = <<>> THEN 0 ELSE SumLen(lines) + Len(lines) - 1
\* l.strip() is empty
IsBlank(line) == line.len = 0
\* len("\n".join(lines).strip()): the blank lines at both ends go
RECURSIVE LStrip(_)
LStrip(lines) ==
    IF lines # <<>> /\ IsBlank(Head(lines)) THEN LStrip(Tail(lines)) ELSE lines
RECURSIVE RStrip(_)
RStrip(lines) ==
    IF lines # <<>> /\ IsBlank(lines[Len(lines)])
    THEN RStrip(SubSeq(lines, 1, Len(lines) - 1)) ELSE lines
StrippedLen(lines) == JoinedLen(RStrip(LStrip(lines)))

\* estimate_tokens: int(len(text) / 3.5)
estimate_tokens(chars) == (chars * 2) \div 7

\* ---- extract_sections ----------------------------------------------------
Section(title, level, content) ==
    [title |-> title, level |-> level,
     line_count |-> Cardinality({i \in DOMAIN content : ~IsBlank(content[i])}),
     token_estimate |-> estimate_tokens(StrippedLen(content))]
RECURSIVE SectionsLoop(_, _, _)
\* cur: the section being read, [open, title, level, content]
SectionsLoop(lines, i, cur) ==
    IF i > Len(lines)
    THEN IF cur.open THEN <<Section(cur.title, cur.level, cur.content)>> ELSE <<>>
    ELSE IF lines[i].level > 0
         THEN (IF cur.open THEN <<Section(cur.title, cur.level, cur.content)>> ELSE <<>>)
              \o SectionsLoop(lines, i + 1,
                     [open |-> TRUE, title |-> lines[i].title, level |-> lines[i].level,
                      content |-> <<>>])
         ELSE SectionsLoop(lines, i + 1, [cur EXCEPT !.content = Append(@, lines[i])])
extract_sections(lines) ==
    SectionsLoop(lines, 1, [open |-> FALSE, title |-> "", level |-> 0, content |-> <<>>])

\* ---- check_section_completeness ------------------------------------------
RECOMMENDED_SECTIONS ==
    <<[section |-> "project purpose", importance |-> "critical"],
      [section |-> "architecture overview", importance |-> "critical"],
      [section |-> "development environment", importance |-> "critical"],
      [section |-> "key principles", importance |-> "high"],
      [section |-> "anti-patterns", importance |-> "high"],
      [section |-> "git workflow", importance |-> "medium"],
      [section |-> "testing", importance |-> "medium"]>>
\* the recommended sections one of whose aliases is part of the title, or has the
\* title as a part (`alias in title or title in alias`)
MatchedBy(title) ==
    CASE title = "project"      -> {"project purpose", "architecture overview"}
      [] title = "overview"     -> {"project purpose"}
      [] title = "testing"      -> {"testing"}
      [] title = "architecture" -> {"architecture overview"}
      [] OTHER                  -> {}
check_section_completeness(sections) ==
    [k \in DOMAIN RECOMMENDED_SECTIONS |->
        [section |-> RECOMMENDED_SECTIONS[k].section,
         importance |-> RECOMMENDED_SECTIONS[k].importance,
         found |-> \E i \in DOMAIN sections :
                      RECOMMENDED_SECTIONS[k].section \in MatchedBy(sections[i].title)]]

\* ---- detect_redundancy ---------------------------------------------------
\* the number of issues of each type; repeated phrases (type repeated_phrase) lead to
\* no recommendation and are not counted
GenericCount(lines) == Cardinality(UNION {lines[i].generic : i \in DOMAIN lines})
VerboseCount(lines) == Cardinality(UNION {lines[i].verbose : i \in DOMAIN lines})
\* re.split(r"[.!?]\s+", text): the sentence of the last line keeps its full stop
SentenceAt(lines, i) == <<lines[i].sentence, i < Len(lines)>>
DuplicateCount(lines) ==
    Cardinality({SentenceAt(lines, i) : i \in
        {i \in DOMAIN lines : /\ lines[i].sentence # ""
                              /\ \E j \in DOMAIN lines :
                                    j # i /\ SentenceAt(lines, j) = SentenceAt(lines, i)}})

\* ---- suggest_hierarchical_loading ----------------------------------------
\* a level-2 section of more than this many tokens can be moved (line 238)
MovableMin == 200

\* sorted(..., key=token_estimate, reverse=True): stable, largest first
RECURSIVE InsertDesc(_, _)
InsertDesc(sorted, s) ==
    IF sorted = <<>> THEN <<s>>
    ELSE IF Head(sorted).token_estimate >= s.token_estimate
         THEN <<Head(sorted)>> \o InsertDesc(Tail(sorted), s)
         ELSE <<s>> \o sorted
RECURSIVE SortDesc(_)
SortDesc(sections) ==
    IF sections = <<>> THEN <<>>
    ELSE InsertDesc(SortDesc(SubSeq(sections, 1, Len(sections) - 1)),
                    sections[Len(sections)])

Suggestion(kind, title, tokens) == [kind |-> kind, title |-> title, tokens |-> tokens]
RECURSIVE MoveLoop(_, _, _, _)
MoveLoop(movable, i, tokens_to_move, overage) ==
    IF i > Len(movable) \/ tokens_to_move >= overage THEN <<>>
    ELSE <<Suggestion("move", movable[i].title, movable[i].token_estimate)>>
         \o MoveLoop(movable, i + 1, tokens_to_move + movable[i].token_estimate, overage)
suggest_hierarchical_loading_in_file_order(lines, sections, token_limit) ==
    LET total_tokens == estimate_tokens(JoinedLen(lines))
        overage == total_tokens - token_limit
        movable_sections ==
            SelectSeq(sections, LAMBDA s : s.level = 2 /\ s.token_estimate > MovableMin)
    IN  IF total_tokens <= token_limit THEN <<>>
        ELSE <<Suggestion("over", "", overage)>> \o MoveLoop(movable_sections, 1, 0, overage)
suggest_hierarchical_loading(lines, sections, token_limit) ==
    LET total_tokens == estimate_tokens(JoinedLen(lines))
        overage == total_tokens - token_limit
        movable_sections ==
            SortDesc(SelectSeq(sections,
                LAMBDA s : s.level = 2 /\ s.token_estimate > MovableMin))
    IN  IF total_tokens <= token_limit THEN <<>>
        ELSE <<Suggestion("over", "", overage)>> \o MoveLoop(movable_sections, 1, 0, overage)

\* ---- generate_recommendations --------------------------------------------
Rec(priority, category, about) == [priority |-> priority, category |-> category, about |-> about]
RecIf(cond, rec) == IF cond THEN <<rec>> ELSE <<>>

RECURSIVE MissingRecs(_, _, _, _)
MissingRecs(completeness, k, importance, priority) ==
    IF k > Len(completeness) THEN <<>>
    ELSE RecIf(~completeness[k].found /\ completeness[k].importance = importance,
               Rec(priority, "completeness", completeness[k].section))
         \o MissingRecs(completeness, k + 1, importance, priority)

\* the token budget recommendations of lines 287-301
TokenBudgetRecsFromLimit(total_tokens, token_limit) ==
    RecIf(total_tokens >= token_limit, Rec("high", "token_budget", "exceeds target"))
    \o RecIf(total_tokens >= token_limit * 2, Rec("high", "token_budget", "double the target"))
TokenBudgetRecs(total_tokens, token_limit) ==
    RecIf(total_tokens > token_limit, Rec("high", "token_budget", "exceeds target"))
    \o RecIf(total_tokens > token_limit * 2, Rec("high", "token_budget", "double the target"))

\* text.strip().startswith("---") and the part between the first two "---" is blank
EmptyFrontmatter(lines) ==
    LET rest == LStrip(lines)
    IN  /\ rest # <<>> /\ Head(rest).start = "---"
        /\ \E j \in 2..Len(rest) :
              /\ rest[j].start = "---"
              /\ \A i \in 2..(j - 1) : IsBlank(rest[i])

RECURSIVE HierarchicalRecs(_)
HierarchicalRecs(hierarchical) ==
    IF hierarchical = <<>> THEN <<>>
    ELSE <<Rec("medium", "hierarchical_loading", Head(hierarchical).kind)>>
         \o HierarchicalRecs(Tail(hierarchical))

generate_recommendations(lines, sections, completeness, hierarchical, token_limit) ==
    LET total_tokens == estimate_tokens(JoinedLen(lines))
        line_count == Len(lines)
        h2_sections == SelectSeq(sections, LAMBDA s : s.level = 2)
        bullet_lines == Cardinality({i \in DOMAIN lines : lines[i].start = "- "})
        paragraph_lines ==
            Cardinality({i \in DOMAIN lines : lines[i].len > 80 /\ lines[i].start = "plain"})
    IN  MissingRecs(completeness, 1, "critical", "high")
        \o MissingRecs(completeness, 1, "high", "medium")
        \o TokenBudgetRecs(total_tokens, token_limit)
        \o RecIf(GenericCount(lines) > 0, Rec("medium", "redundancy", "generic"))
        \o RecIf(VerboseCount(lines) > 0, Rec("low", "redundancy", "verbose"))
        \o RecIf(DuplicateCount(lines) > 0, Rec("medium", "redundancy", "duplicate"))
        \o RecIf(line_count > 300, Rec("medium", "structure", "lines"))
        \o RecIf(Len(h2_sections) > 10, Rec("low", "structure", "sections"))
        \o RecIf(EmptyFrontmatter(lines), Rec("low", "structure", "frontmatter"))
        \o RecIf(paragraph_lines > bullet_lines /\ paragraph_lines > 10,
                 Rec("medium", "format", "paragraphs"))
        \o HierarchicalRecs(hierarchical)

\* ---- analyze_claudemd ----------------------------------------------------
RECURSIVE Penalty(_)
Penalty(recs) ==
    IF recs = <<>> THEN 0
    ELSE (CASE Head(recs).priority = "high" -> 15
            [] Head(recs).priority = "medium" -> 8
            [] Head(recs).priority = "low" -> 3
            [] OTHER -> 0) + Penalty(Tail(recs))
Max(a, b) == IF a >= b THEN a ELSE b
Min(a, b) == IF a <= b THEN a ELSE b

\* file is [exists, isFile, lines]
analyze_claudemd(file, token_limit) ==
    IF ~file.exists \/ ~file.isFile
    THEN [success |-> FALSE]
    ELSE LET lines == file.lines
             token_estimate == estimate_tokens(JoinedLen(lines))
             sections == extract_sections(lines)
             completeness == check_section_completeness(sections)
             hierarchical == suggest_hierarchical_loading(lines, sections, token_limit)
             recommendations ==
                 generate_recommendations(lines, sections, completeness, hierarchical,
                                          token_limit)
         IN  [success |-> TRUE,
              metrics |-> [line_count |-> Len(lines),
                           non_empty_lines |->
                               Cardinality({i \in DOMAIN lines : ~IsBlank(lines[i])}),
                           character_count |-> JoinedLen(lines),
                           token_estimate |-> token_estimate,
                           token_limit |-> token_limit,
                           within_budget |-> token_estimate <= token_limit,
                           section_count |-> Len(sections)],
              sections |-> sections,
              hierarchical |-> hierarchical,
              recommendations |-> recommendations,
              score |-> Max(0, Min(100, 100 - Penalty(recommendations)))]

\* ---- main ----------------------------------------------------------------
\* the default of --token-limit (line 526)
DefaultTokenLimit == 6000
\* the token limits given: any integer is accepted
TokenLimits == {-1, 0, 12, 240, 600, DefaultTokenLimit}

OptimizerMain ==
    /\ ~mdout.ran
    /\ mdout' = LET result == analyze_claudemd(md.file, md.token_limit)
                IN  [ran |-> TRUE, result |-> result,
                     exit |-> IF ~result.success THEN 1 ELSE 0]
    /\ UNCHANGED <<md, instVars, valVars, paVars, ssVars, fmVars, smVars, cliVars, parVars>>

MaxMdLines == 3     \* a CLAUDE.md has at most MaxMdLines lines

InitOptimize ==
    /\ InstIdle /\ ValidatorIdle /\ PaIdle /\ SsIdle /\ FmIdle /\ SmIdle /\ CliIdle /\ ParIdle
    /\ \E limit \in TokenLimits :
         \/ \E e \in BOOLEAN :
              md = [given |-> TRUE, token_limit |-> limit,
                    file |-> [exists |-> e, isFile |-> FALSE, lines |-> <<>>]]
         \/ \E n \in 1..MaxMdLines : \E lines \in [1..n -> MdLines] :
              md = [given |-> TRUE, token_limit |-> limit,
                    file |-> [exists |-> TRUE, isFile |-> TRUE, lines |-> lines]]
    /\ mdout = NotRun
NextOptimize == OptimizerMain
SpecOptimize == InitOptimize /\ [][NextOptimize]_vars

(***************************************************************************)
(* Part V: skill_scaffolder.py                                             *)
(***************************************************************************)
\* A skill name is the sequence of its characters. A path below the output
\* directory is the sequence of its components, each a sequence of pieces of text.
VALID_DOMAINS ==
    {"engineering", "marketing", "product", "project-management", "c-level", "ra-qm",
     "business-growth", "finance", "standards", "development-tools"}

\* c.isalnum(), for the characters names are written with
IsAlnum(c) == c \in {"a", "b", "A", "1", "é"}

NoError == ""
\* validate_skill_name: the error message, or NoError for None
validate_skill_name_no_run_check(name) ==
    IF name = <<>> THEN "Skill name cannot be empty"
    ELSE IF ~\A i \in DOMAIN name : IsAlnum(name[i]) \/ name[i] = "-"
    THEN "Skill name must contain only alphanumeric characters and hyphens"
    ELSE IF name[1] = "-" \/ name[Len(name)] = "-"
    THEN "Skill name must not start or end with a hyphen"
    ELSE NoError
validate_skill_name(name) ==
    IF name = <<>> THEN "Skill name cannot be empty"
    ELSE IF ~\A i \in DOMAIN name : IsAlnum(name[i]) \/ name[i] = "-"
    THEN "Skill name must contain only alphanumeric characters and hyphens"
    ELSE IF name[1] = "-" \/ name[Len(name)] = "-"
    THEN "Skill name must not start or end with a hyphen"
    ELSE IF \E i \in 1..(Len(name) - 1) : name[i] = "-" /\ name[i + 1] = "-"
    THEN "Skill name must not contain consecutive hyphens"
    ELSE NoError

\* skill_name.replace("-", "_") + "_tool.py"
ScriptNameKeepsHyphens(skill_name) == skill_name \o <<"_tool.py">>
ScriptName(skill_name) ==
    [i \in DOMAIN skill_name |-> IF skill_name[i] = "-" THEN "_" ELSE skill_name[i]]
    \o <<"_tool.py">>

\* ---- the output directory ------------------------------------------------
\* an entry of the tree: a directory, or a file with what was written to it
NoContent == [template |-> "", skill_name |-> <<>>, domain |-> "", description |-> "",
              category |-> ""]
Dir(path) == [path |-> path, kind |-> "dir", content |-> NoContent]
File(path, content) == [path |-> path, kind |-> "file", content |-> content]
Exists(tree, path) == \E e \in tree : e.path = path
\* d.mkdir(parents=True, exist_ok=True), the parent first
Mkdir(tree, path) == IF Exists(tree, path) THEN tree ELSE tree \cup {Dir(path)}
\* path.write_text(content): creates the file or replaces what it holds
WriteText(tree, path, content) == {e \in tree : e.path # path} \cup {File(path, content)}

\* what the templates are filled with
SkillMdContent(skill_name, domain, description, category) ==
    [template |-> "SKILL_MD_TEMPLATE", skill_name |-> skill_name, domain |-> domain,
     description |-> description, category |-> category]
ScriptContent(skill_name) == [NoContent EXCEPT !.template = "SCRIPT_TEMPLATE",
                                               !.skill_name = skill_name]
ReferenceContent(skill_name) == [NoContent EXCEPT !.template = "REFERENCE_TEMPLATE",
                                                  !.skill_name = skill_name]

\* the description main passes on: the one given, or one made of the title
DescriptionOf(skill_name, description) ==
    IF description = "" THEN "This skill should be used when the user asks about <title>"
    ELSE description

\* skill_path.exists() of line 263
TargetExistsNever(tree, skill_path) == FALSE
TargetExists(tree, skill_path) == Exists(tree, skill_path)

\* create_skill_directory, on the tree of the output directory: the result and the
\* tree it leaves. out is what the output path is: "dir" or "file".
ScaffoldResult(success, created_dirs, created_files) ==
    [success |-> success, directories_created |-> created_dirs,
     files_created |-> created_files]
NoResult == ScaffoldResult(FALSE, <<>>, <<>>)
create_skill_directory(tree, out, skill_name, domain, description, category) ==
    LET skill_path == <<skill_name>>
        cat == IF category = "" THEN domain ELSE category
        directories == <<skill_path \o <<<<"scripts">>>>, skill_path \o <<<<"references">>>>,
                         skill_path \o <<<<"assets">>>>>>
        skill_md_path == skill_path \o <<<<"SKILL.md">>>>
        script_path == directories[1] \o <<ScriptName(skill_name)>>
        ref_path == directories[2] \o <<<<"guide.md">>>>
        gitkeep_path == directories[3] \o <<<<".gitkeep">>>>
        t1 == Mkdir(Mkdir(Mkdir(Mkdir(tree, skill_path), directories[1]), directories[2]),
                    directories[3])
        t2 == WriteText(t1, skill_md_path,
                        SkillMdContent(skill_name, domain, description, cat))
        t3 == WriteText(t2, script_path, ScriptContent(skill_name))
        t4 == WriteText(t3, ref_path, ReferenceContent(skill_name))
        t5 == WriteText(t4, gitkeep_path, NoContent)
    IN  IF out = "dir" /\ TargetExists(tree, skill_path)
        THEN [raised |-> FALSE, result |-> NoResult, tree |-> tree]
        ELSE IF out # "dir" \/ \E e \in tree : e.path = skill_path /\ e.kind = "file"
        \* the output path or the target is a file: the first mkdir raises
        \* NotADirectoryError
        THEN [raised |-> TRUE, result |-> NoResult, tree |-> tree]
        ELSE [raised |-> FALSE,
              result |-> ScaffoldResult(TRUE, directories,
                             <<skill_md_path, script_path, ref_path, gitkeep_path>>),
              tree |-> t5]

\* ---- main ----------------------------------------------------------------
\* what an invocation printed: a JSON document or text, an error or the result
ScaffolderOutcome(name, json, exit, raised, printed, result) ==
    [ran |-> TRUE, skill_name |-> name, json |-> json, exit |-> exit, raised |-> raised,
     printed |-> printed, result |-> result]

ScaffolderMain(skill_name, domain, description, json) ==
    LET error == validate_skill_name(skill_name)
    IN  IF error # NoError
        THEN /\ sout' = ScaffolderOutcome(skill_name, json, 1, FALSE,
                            IF json THEN "json error" ELSE "text error", NoResult)
             /\ UNCHANGED sfs
        ELSE IF sfs.out = "absent"
        THEN /\ sout' = ScaffolderOutcome(skill_name, json, 1, FALSE,
                            IF json THEN "json error" ELSE "text error", NoResult)
             /\ UNCHANGED sfs
        ELSE LET r == create_skill_directory(sfs.tree, sfs.out, skill_name, domain,
                          DescriptionOf(skill_name, description), "")
             IN  /\ sfs' = [sfs EXCEPT !.tree = r.tree]
                 /\ sout' = IF r.raised
                            THEN ScaffolderOutcome(skill_name, json, 1, TRUE, "traceback",
                                                   NoResult)
                            ELSE ScaffolderOutcome(skill_name, json,
                                     IF ~r.result.success THEN 1 ELSE 0, FALSE,
                                     IF json THEN "json result"
                                     ELSE IF r.result.success THEN "text result"
                                     ELSE "text error",
                                     r.result)

\* the names, domains and descriptions given on the command line
ScaffoldNames ==
    {<<"a">>, <<"a", "-", "b">>, <<"é">>,
     <<>>, <<"-", "a">>, <<"a", "-">>, <<"a", "-", "-", "b">>, <<"a", "_", "b">>}
ScaffoldDomains == {"engineering", "games"}
ScaffoldDescriptions == {"", "Brief desc"}

Scaffold ==
    \E n \in ScaffoldNames, d \in ScaffoldDomains, desc \in ScaffoldDescriptions,
       j \in BOOLEAN : ScaffolderMain(n, d, desc, j)
CmdScaffold ==
    Scaffold /\ UNCHANGED <<instVars, valVars, paVars, coVars, fmVars, smVars, cliVars, parVars>>

\* the output directory before the first run: empty, or with something in the place
\* of a skill; or the output path is a file, or does not exist
OldContent == [NoContent EXCEPT !.template = "written by hand"]
StartTrees ==
    {{},
     {Dir(<<<<"a">>>>), File(<<<<"a">>, <<"SKILL.md">>>>, OldContent)},
     {File(<<<<"a", "-", "b">>>>, OldContent)}}
InitScaffold ==
    /\ InstIdle /\ ValidatorIdle /\ PaIdle /\ CoIdle /\ FmIdle /\ SmIdle /\ CliIdle /\ ParIdle
    /\ \/ \E t \in StartTrees : sfs = [given |-> TRUE, out |-> "dir", tree |-> t]
       \/ \E o \in {"absent", "file"} : sfs = [given |-> TRUE, out |-> o, tree |-> {}]
    /\ sout = NotRun
NextScaffold == CmdScaffold
SpecScaffold == InitScaffold /\ [][NextScaffold]_vars

(***************************************************************************)
(* Part VI: the frontmatter parsers of codex_skill_converter.py,           *)
(*          cross_platform_validator.py and skills_index_builder.py        *)
(***************************************************************************)
\* A text is the sequence of its lines (content.split("\n")). A line is its
\* indentation, its stripped text, and what the pattern ^(\w[\w-]*)\s*:\s*(.*) finds
\* in the stripped text: no match, or a key and a (stripped) value.
FmLine(indent, text, kind, key, value) ==
    [indent |-> indent, text |-> text, kind |-> kind, key |-> key, value |-> value]
Delimiter(indent) == FmLine(indent, "---", "other", "", "")
LongDashes == FmLine(0, "----", "other", "", "")
FmBlank == FmLine(0, "", "other", "", "")
FmComment == FmLine(0, "# generated", "other", "", "")
Heading == FmLine(0, "# My Skill", "other", "", "")
Plain(indent) == FmLine(indent, "Use this skill for reviews", "other", "", "")
KeyValue(indent, key, value) ==
    FmLine(indent, key \o ":" \o (IF value = "" THEN "" ELSE " " \o value), "kv", key, value)

\* s.startswith(c), s.endswith(c) for one character c, and s.strip()
StrStartsWith(s, c) == Len(s) >= 1 /\ SubSeq(s, 1, 1) = c
StrEndsWith(s, c) == Len(s) >= 1 /\ SubSeq(s, Len(s), Len(s)) = c
RECURSIVE StrLStrip(_)
StrLStrip(s) == IF StrStartsWith(s, " ") THEN StrLStrip(SubSeq(s, 2, Len(s))) ELSE s
RECURSIVE StrRStrip(_)
StrRStrip(s) == IF StrEndsWith(s, " ") THEN StrRStrip(SubSeq(s, 1, Len(s) - 1)) ELSE s
StrStrip(s) == StrRStrip(StrLStrip(s))
\* value[1:-1] when the value starts and ends with the same quote
Unquote(value) ==
    IF \/ StrStartsWith(value, "\"") /\ StrEndsWith(value, "\"")
       \/ StrStartsWith(value, "'") /\ StrEndsWith(value, "'")
    THEN (IF Len(value) >= 2 THEN SubSeq(value, 2, Len(value) - 1) ELSE "")
    ELSE value
\* stripped.startswith("#")
IsComment(line) == StrStartsWith(line.text, "#")
\* content.startswith("---")
StartsWithDashes(lines) ==
    /\ lines # <<>> /\ lines[1].indent = 0
    /\ Len(lines[1].text) >= 3 /\ SubSeq(lines[1].text, 1, 3) = "---"
\* the first i in range(1, len(lines)) with lines[i].strip() == "---"; 0 for none
\* (lines are counted from 1 here, so the search starts at the second line)
EndIndexFromFirstLine(lines) ==
    LET hits == {i \in 1..Len(lines) : lines[i].text = "---"}
    IN  IF hits = {} THEN 0 ELSE CHOOSE i \in hits : \A j \in hits : i <= j
EndIndex(lines) ==
    LET hits == {i \in 2..Len(lines) : lines[i].text = "---"}
    IN  IF hits = {} THEN 0 ELSE CHOOSE i \in hits : \A j \in hits : i <= j
\* lines[1:end_index]
FmLinesOf(lines) == SubSeq(lines, 2, EndIndex(lines) - 1)

\* ---- mappings ------------------------------------------------------------
\* a mapping is a function from its keys; a value is a string or a mapping of strings
EmptyMap == [k \in {} |-> ""]
Put(m, k, v) == [x \in DOMAIN m \cup {k} |-> IF x = k THEN v ELSE m[x]]
Str(s) == [type |-> "str", str |-> s, dict |-> EmptyMap]
Dict(m) == [type |-> "dict", str |-> "", dict |-> m]
IsStr(m, k) == k \in DOMAIN m /\ m[k].type = "str"
IsDict(m, k) == k \in DOMAIN m /\ m[k].type = "dict"
None == ""
Parsed(raised, valid, map) == [raised |-> raised, valid |-> valid, map |-> map]

\* ---- codex_skill_converter.parse_yaml_frontmatter ------------------------
\* isinstance(frontmatter.get(current_key), dict) of line 78
NestedGuard(frontmatter, current_key) == IsDict(frontmatter, current_key)

RECURSIVE ConverterLoop(_, _, _)
\* st = [frontmatter, current_key, raised]
ConverterLoop(fm_lines, i, st) ==
    IF i > Len(fm_lines) \/ st.raised THEN st
    ELSE LET line == fm_lines[i]
             stripped == line.text
             indent == line.indent
         IN  IF stripped = "" \/ IsComment(line) THEN ConverterLoop(fm_lines, i + 1, st)
             ELSE IF line.kind = "kv" /\ indent = 0
             THEN ConverterLoop(fm_lines, i + 1,
                      [st EXCEPT !.frontmatter =
                                     Put(@, line.key,
                                         IF line.value # "" THEN Str(Unquote(line.value))
                                         ELSE Dict(EmptyMap)),
                                 !.current_key = line.key])
             ELSE IF /\ indent > 0 /\ st.current_key # None
                     /\ NestedGuard(st.frontmatter, st.current_key)
                     /\ line.kind = "kv"
             THEN \* frontmatter[current_key][nkey] = nval: a TypeError on a string
                  IF ~IsDict(st.frontmatter, st.current_key)
                  THEN [st EXCEPT !.raised = TRUE]
                  ELSE ConverterLoop(fm_lines, i + 1,
                           [st EXCEPT !.frontmatter =
                               Put(@, st.current_key,
                                   Dict(Put(st.frontmatter[st.current_key].dict, line.key,
                                            Unquote(line.value))))])
             ELSE IF /\ st.current_key = "description" /\ indent > 0
                     /\ IsStr(st.frontmatter, "description")
             THEN ConverterLoop(fm_lines, i + 1,
                      [st EXCEPT !.frontmatter =
                          Put(@, "description",
                              Str(st.frontmatter["description"].str \o " " \o stripped))])
             ELSE ConverterLoop(fm_lines, i + 1, st)

converter_parse_yaml_frontmatter(content) ==
    IF ~StartsWithDashes(content) \/ EndIndex(content) = 0
    THEN Parsed(FALSE, FALSE, EmptyMap)
    ELSE LET st == ConverterLoop(FmLinesOf(content), 1,
                       [frontmatter |-> EmptyMap, current_key |-> None, raised |-> FALSE])
         IN  Parsed(st.raised, TRUE, st.frontmatter)

\* ---- cross_platform_validator.parse_yaml_frontmatter_simple --------------
\* `if current_key and current_value: result[current_key] = current_value.strip()`
ValidatorSave(st) ==
    IF st.current_key # None /\ st.current_value # ""
    THEN Put(st.result, st.current_key, Str(StrStrip(st.current_value))) ELSE st.result

RECURSIVE ValidatorLoop(_, _, _)
\* st = [result, current_key, current_value]
ValidatorLoop(fm_lines, i, st) ==
    IF i > Len(fm_lines) THEN st
    ELSE LET line == fm_lines[i]
             stripped == line.text
             indent == line.indent
         IN  IF stripped = "" \/ IsComment(line) THEN ValidatorLoop(fm_lines, i + 1, st)
             ELSE IF line.kind = "kv" /\ indent = 0
             THEN ValidatorLoop(fm_lines, i + 1,
                      [result |-> ValidatorSave(st), current_key |-> line.key,
                       current_value |-> Unquote(line.value)])
             ELSE IF indent > 0 /\ st.current_key # None
             THEN IF st.current_key = "description"
                  THEN ValidatorLoop(fm_lines, i + 1,
                           [st EXCEPT !.current_value = @ \o " " \o stripped])
                  ELSE IF line.kind = "kv" /\ st.current_key \notin DOMAIN st.result
                  \* ":" in stripped, for the lines of the model
                  THEN ValidatorLoop(fm_lines, i + 1,
                           [st EXCEPT !.result = Put(@, st.current_key, Str("__nested__"))])
                  ELSE ValidatorLoop(fm_lines, i + 1, st)
             ELSE ValidatorLoop(fm_lines, i + 1, st)

parse_yaml_frontmatter_simple(content) ==
    IF ~StartsWithDashes(content) \/ EndIndex(content) = 0
    THEN Parsed(FALSE, FALSE, EmptyMap)
    ELSE LET st == ValidatorLoop(FmLinesOf(content), 1,
                       [result |-> EmptyMap, current_key |-> None, current_value |-> ""])
         IN  Parsed(FALSE, TRUE, ValidatorSave(st))

\* ---- skills_index_builder.parse_yaml_frontmatter -------------------------
\* the block-scalar indicators of line 78
FlowIndicators == {">", "|", "|-", ">-"}

\* the save of lines 66-72 and 110-114
IndexSave(st) ==
    IF st.current_key = None THEN st.result
    ELSE IF st.nested_key # None /\ st.nested_dict # EmptyMap
    THEN Put(st.result, st.current_key, Dict(st.nested_dict))
    ELSE IF st.current_value # ""
    THEN Put(st.result, st.current_key, Str(StrStrip(st.current_value)))
    ELSE st.result
\* inside the loop the nested dictionary and its key are reset after they are saved
IndexReset(st) ==
    IF st.current_key # None /\ st.nested_key # None /\ st.nested_dict # EmptyMap
    THEN [st EXCEPT !.nested_dict = EmptyMap, !.nested_key = None]
    ELSE st

\* the top-level key branch of lines 64-88
IndexTopLevel(st, line) ==
    LET saved == [IndexReset(st) EXCEPT !.result = IndexSave(st)]
        val == line.value
    IN  IF val \in FlowIndicators
        THEN [saved EXCEPT !.current_key = line.key, !.current_value = ""]
        ELSE IF val # ""
        THEN [saved EXCEPT !.current_key = line.key, !.current_value = Unquote(val)]
        ELSE [saved EXCEPT !.current_key = line.key, !.current_value = "",
                           !.nested_key = line.key]

RECURSIVE IndexLoop(_, _, _)
\* st = [result, current_key, current_value, nested_dict, nested_key]
IndexLoop(fm_lines, i, st) ==
    IF i > Len(fm_lines) THEN st
    ELSE LET line == fm_lines[i]
             stripped == line.text
             indent == line.indent
         IN  IF stripped = "" \/ IsComment(line) THEN IndexLoop(fm_lines, i + 1, st)
             ELSE IF line.kind = "kv" /\ indent = 0
             THEN IndexLoop(fm_lines, i + 1, IndexTopLevel(st, line))
             ELSE IF indent > 0 /\ st.nested_key # None /\ line.kind = "kv"
             THEN IndexLoop(fm_lines, i + 1,
                      [st EXCEPT !.nested_dict = Put(@, line.key, Unquote(line.value))])
             ELSE IF indent > 0 /\ st.current_key # None
             THEN IndexLoop(fm_lines, i + 1,
                      [st EXCEPT !.current_value =
                          IF @ # "" THEN @ \o " " \o stripped ELSE stripped])
             ELSE IndexLoop(fm_lines, i + 1, st)

index_parse_yaml_frontmatter(content) ==
    IF ~StartsWithDashes(content) \/ EndIndex(content) = 0
    THEN Parsed(FALSE, FALSE, EmptyMap)
    ELSE LET st == IndexLoop(FmLinesOf(content), 1,
                       [result |-> EmptyMap, current_key |-> None, current_value |-> "",
                        nested_dict |-> EmptyMap, nested_key |-> None])
         IN  Parsed(FALSE, TRUE, IndexSave(st))

\* ---- the texts given -----------------------------------------------------
MaxFmLines == 3     \* lines between the first line and the closing delimiter

\* the lines a frontmatter block is written with
BodyLines ==
    {KeyValue(0, "name", "my-skill"), KeyValue(0, "description", ">-"),
     KeyValue(0, "description", "\"Short text\""), KeyValue(0, "license", "\"\""),
     KeyValue(0, "metadata", ""),
     KeyValue(2, "version", "1.0.0"), Plain(2), Plain(0), FmBlank, FmComment}
FirstLines == {Delimiter(0), LongDashes, Delimiter(2), KeyValue(0, "name", "my-skill")}
\* the end of the block: a delimiter line, indented or not, and the document after it
Closings == {<<>>, <<Delimiter(0), Heading>>, <<Delimiter(2), Heading>>}

ParseFrontmatter ==
    /\ ~fmout.ran
    /\ fmout' = [ran |-> TRUE,
                 converter |-> converter_parse_yaml_frontmatter(fmtext.lines),
                 validator |-> parse_yaml_frontmatter_simple(fmtext.lines),
                 index |-> index_parse_yaml_frontmatter(fmtext.lines)]
    /\ UNCHANGED <<fmtext, instVars, valVars, paVars, coVars, ssVars, smVars, cliVars, parVars>>

InitFrontmatter ==
    /\ InstIdle /\ ValidatorIdle /\ PaIdle /\ CoIdle /\ SsIdle /\ SmIdle /\ CliIdle /\ ParIdle
    /\ \E first \in FirstLines, closing \in Closings, n \in 0..MaxFmLines :
         \E body \in [1..n -> BodyLines] :
            fmtext = [given |-> TRUE, lines |-> <<first>> \o body \o closing]
    /\ fmout = NotRun
NextFrontmatter == ParseFrontmatter
SpecFrontmatter == InitFrontmatter /\ [][NextFrontmatter]_vars

(***************************************************************************)
(* Part VII: what the tools with a --json flag write when they fail        *)
(***************************************************************************)
\* The output of an invocation: what went to standard output ("json error": a JSON
\* error envelope; "json result", "text result": the result; "text error": a message
\* for people; "": nothing) and to standard error ("text error", "traceback", "").
\* rejected: the tool's own check of its input ended the invocation.
Output(tool, json, exit, rejected, stdout, stderr) ==
    [tool |-> tool, ran |-> TRUE, json |-> json, exit |-> exit, rejected |-> rejected,
     stdout |-> stdout, stderr |-> stderr]

\* skill-installer.py: the checks print to sys.stderr and call sys.exit(1) whatever
\* args.json is; args.json chooses the form of the result only
InstallerOutput(json, outcome) ==
    IF outcome.raised THEN Output("installer", json, 1, FALSE, "", "traceback")
    ELSE IF outcome.exit = 1 THEN Output("installer", json, 1, TRUE, "", "text error")
    ELSE Output("installer", json, 0, FALSE,
                IF json THEN "json result" ELSE "text result", "")

\* cross_platform_validator.py main: lines 654-656, then 660-663
ValidatorOutput(json, outcome) ==
    IF ~outcome.hasReport THEN Output("validator", json, 1, TRUE, "", "text error")
    ELSE Output("validator", json, outcome.exit, FALSE,
                IF json THEN "json result" ELSE "text result", "")

\* skill_scaffolder.py main: lines 423-429, 448-454 and 468-473
ScaffolderOutput(outcome) ==
    IF outcome.raised
    THEN Output("scaffolder", outcome.json, 1, FALSE, "", "traceback")
    ELSE Output("scaffolder", outcome.json, outcome.exit, outcome.exit = 1,
                outcome.printed, "")

\* ---- invocations whose output is recorded ---------------------------------
CmdInstallOutput ==
    /\ cli.tool = "installer"
    /\ \E s \in SkillArgs, auto \in BOOLEAN, json \in BOOLEAN :
          /\ Install(s, auto, FALSE, 0, "gone")
          /\ cli' = InstallerOutput(json, last')
    /\ UNCHANGED <<valVars, paVars, coVars, ssVars, fmVars, smVars, parVars>>
CmdUninstallOutput ==
    /\ cli.tool = "installer"
    /\ \E s \in SkillArgs, json \in BOOLEAN :
          /\ Uninstall(s, 0, "gone")
          /\ cli' = InstallerOutput(json, last')
    /\ UNCHANGED <<valVars, paVars, coVars, ssVars, fmVars, smVars, parVars>>
CmdListOutput ==
    /\ cli.tool = "installer"
    /\ \E g \in GroupArgs, json \in BOOLEAN :
          /\ List(g)
          /\ cli' = InstallerOutput(json, last')
    /\ UNCHANGED <<valVars, paVars, coVars, ssVars, fmVars, smVars, parVars>>
ValidatorMainOutput ==
    /\ cli.tool = "validator"
    /\ ValidatorRun
    /\ \E json \in BOOLEAN : cli' = ValidatorOutput(json, vout')
    /\ UNCHANGED <<instVars, paVars, coVars, ssVars, fmVars, smVars, parVars>>
CmdScaffoldOutput ==
    /\ cli.tool = "scaffolder"
    /\ Scaffold
    /\ cli' = ScaffolderOutput(sout')
    /\ UNCHANGED <<instVars, valVars, paVars, coVars, fmVars, smVars, parVars>>

\* one of the three tools, before its first invocation
NotInvoked(tool) == [tool |-> tool, ran |-> FALSE]
InitOutput ==
    /\ PaIdle /\ CoIdle /\ FmIdle /\ SmIdle /\ ParIdle
    /\ \/ /\ cli = NotInvoked("installer")
          /\ InstIdle /\ ValidatorIdle /\ SsIdle
       \/ /\ cli = NotInvoked("validator")
          /\ InstIdle /\ SsIdle
          /\ vdir \in {NotADir, EmptyDir} /\ vstrict \in BOOLEAN /\ vout = ValIdle
       \/ /\ cli = NotInvoked("scaffolder")
          /\ InstIdle /\ ValidatorIdle
          /\ \/ \E t \in StartTrees : sfs = [given |-> TRUE, out |-> "dir", tree |-> t]
             \/ \E o \in {"absent", "file"} : sfs = [given |-> TRUE, out |-> o, tree |-> {}]
          /\ sout = NotRun
NextOutput ==
    \/ CmdInstallOutput
    \/ CmdUninstallOutput
    \/ CmdListOutput
    \/ ValidatorMainOutput
    \/ CmdScaffoldOutput
SpecOutput == InitOutput /\ [][NextOutput]_vars

(***************************************************************************)
(* Part VIII: store_metadata_generator.py                                  *)
(***************************************************************************)
\* ---- strings -------------------------------------------------------------
\* the characters keywords are written with, in the order of their code points
Alphabet == " -0123456789_abcdefghijklmnopqrstuvwxyz"
UpperCase == "ABCDEFGHIJKLMNOPQRSTUVWXYZ"
LowerCase == "abcdefghijklmnopqrstuvwxyz"
CharAt(s, i) == SubSeq(s, i, i)
Rank(c) == CHOOSE i \in 1..Len(Alphabet) : CharAt(Alphabet, i) = c
\* x < y for strings
RECURSIVE StrLess(_, _)
StrLess(x, y) ==
    IF y = "" THEN FALSE
    ELSE IF x = "" THEN TRUE
    ELSE IF CharAt(x, 1) # CharAt(y, 1) THEN Rank(CharAt(x, 1)) < Rank(CharAt(y, 1))
    ELSE StrLess(SubSeq(x, 2, Len(x)), SubSeq(y, 2, Len(y)))
\* s.lower()
LowerChar(c) ==
    IF \E i \in 1..Len(UpperCase) : CharAt(UpperCase, i) = c
    THEN CharAt(LowerCase, CHOOSE i \in 1..Len(UpperCase) : CharAt(UpperCase, i) = c)
    ELSE c
RECURSIVE Lower(_)
Lower(s) == IF s = "" THEN "" ELSE LowerChar(CharAt(s, 1)) \o Lower(SubSeq(s, 2, Len(s)))
\* r.startswith(key)
StrPrefix(r, key) == Len(r) >= Len(key) /\ SubSeq(r, 1, Len(key)) = key
\* s.split(" ")[0]
RECURSIVE FirstWord(_)
FirstWord(s) ==
    IF s = "" \/ CharAt(s, 1) = " " THEN ""
    ELSE CharAt(s, 1) \o FirstWord(SubSeq(s, 2, Len(s)))
\* re.split(r"[\s\-_]+", s), as the set of the pieces
RECURSIVE SplitWords(_, _)
SplitWords(s, word) ==
    IF s = "" THEN {word}
    ELSE IF CharAt(s, 1) \in {" ", "-", "_"}
    THEN {word} \cup SplitWords(SubSeq(s, 2, Len(s)), "")
    ELSE SplitWords(SubSeq(s, 2, Len(s)), word \o CharAt(s, 1))
\* ",".join(list)
RECURSIVE Join(_)
Join(list) ==
    IF list = <<>> THEN ""
    ELSE IF Len(list) = 1 THEN list[1]
    ELSE list[1] \o "," \o Join(Tail(list))
Range(seq) == {seq[i] : i \in DOMAIN seq}
\* seq[:n] and seq[n:]
Take(seq, n) == SubSeq(seq, 1, IF Len(seq) < n THEN Len(seq) ELSE n)
Drop(seq, n) == SubSeq(seq, n + 1, Len(seq))

\* ---- the tables ----------------------------------------------------------
\* FEATURE_KEYWORDS and CATEGORY_KEYWORDS, for the features and categories given
FEATURE_KEYWORDS ==
    [offline |-> <<"offline mode", "no internet", "works offline", "offline access",
                   "local storage">>,
     chat |-> <<"messaging", "chat", "instant messaging", "real-time chat", "conversations">>,
     social |-> <<"social sharing", "community", "profiles", "social network", "friends">>,
     tracking |-> <<"tracking", "analytics", "progress", "statistics", "monitoring">>,
     workout |-> <<"exercise", "fitness", "training", "workout plans", "gym">>,
     accessibility |-> <<"accessibility", "voiceover", "talkback", "inclusive", "a11y">>]
CATEGORY_KEYWORDS ==
    [productivity |-> <<"productivity", "organizer", "planner", "task", "todo", "notes",
                        "workflow", "efficiency", "time management", "calendar">>,
     health |-> <<"fitness", "health", "workout", "exercise", "training", "wellness",
                  "nutrition", "tracker", "gym", "lifestyle">>,
     business |-> <<"business", "enterprise", "team", "collaboration", "project",
                    "management", "CRM", "workflow">>,
     games |-> <<"game", "play", "fun", "adventure", "puzzle", "strategy", "arcade",
                 "action", "multiplayer">>]
\* table.get(key, [])
Get(table, key) == IF key \in DOMAIN table THEN table[key] ELSE <<>>

\* AGE_RATING_FLAGS: the notes tell the entries apart
AgeFlag(flag, ios_rating, android_rating, notes) ==
    [flag |-> flag, ios_rating |-> ios_rating, android_rating |-> android_rating,
     notes |-> notes]
AGE_RATING_FLAGS ==
    [social |-> AgeFlag("Unrestricted Web Access / User-Generated Content", "12+", "Teen",
                        "Social features with UGC"),
     chat |-> AgeFlag("Unrestricted Web Access / User-Generated Content", "12+", "Teen",
                      "Real-time messaging"),
     payment |-> AgeFlag("In-App Purchases", "4+", "Everyone", "Must disclose"),
     games |-> AgeFlag("Simulated Gambling / Frequent Intense Content", "12+", "Teen",
                       "Rating depends on game content"),
     health |-> AgeFlag("Medical / Health Information", "4+", "Everyone", "Health apps"),
     camera |-> AgeFlag("Camera / Microphone Access", "4+", "Everyone", "Camera access"),
     ai |-> AgeFlag("AI-Generated Content", "12+", "Teen", "AI content generation")]
IOS_RATING_ORDER == <<"4+", "9+", "12+", "17+">>
ANDROID_RATING_ORDER == <<"Everyone", "Everyone 10+", "Teen", "Mature 17+">>

\* ---- generate_keywords ---------------------------------------------------
stop_words == {"the", "a", "an", "and", "or", "for", "to", "in", "of", "my", "app"}
IosKeywordMax == 100

\* the key (len(x), x) of the sort
KeyLessAlphabetical(x, y) == StrLess(x, y)
KeyLess(x, y) == Len(x) < Len(y) \/ (Len(x) = Len(y) /\ StrLess(x, y))
\* sorted(keywords, key=...)
RECURSIVE Sorted(_)
Sorted(keywords) ==
    IF keywords = {} THEN <<>>
    ELSE LET first == CHOOSE x \in keywords : \A y \in keywords \ {x} : KeyLess(x, y)
         IN  <<first>> \o Sorted(keywords \ {first})

\* the loop of lines 389-394
RECURSIVE IosLoop(_, _, _)
IosLoop(sorted_keywords, i, ios_kw_list) ==
    IF i > Len(sorted_keywords) THEN ios_kw_list
    ELSE LET kw == sorted_keywords[i]
             candidate == IF ios_kw_list # <<>> THEN Join(ios_kw_list \o <<kw>>) ELSE kw
         IN  IF Len(candidate) <= IosKeywordMax
             THEN IosLoop(sorted_keywords, i + 1, Append(ios_kw_list, kw))
             ELSE ios_kw_list

\* the keywords of the features, and the primary and secondary ones
RECURSIVE FeatureLoop(_, _, _)
\* st = [keywords, primary_keywords, secondary_keywords]
FeatureLoop(features, i, st) ==
    IF i > Len(features) THEN st
    ELSE LET f_lower == StrStrip(Lower(features[i]))
             expanded == Get(FEATURE_KEYWORDS, f_lower)
         IN  FeatureLoop(features, i + 1,
                 [keywords |-> st.keywords \cup {f_lower} \cup Range(expanded),
                  primary_keywords |-> st.primary_keywords \o Take(expanded, 2),
                  secondary_keywords |-> st.secondary_keywords \o Drop(expanded, 2)])

generate_keywords(app_name, category, features) ==
    LET name_words == SplitWords(Lower(app_name), "")
        from_name == {word \in name_words : word \notin stop_words /\ Len(word) > 1}
        from_category ==
            {category} \cup {Lower(kw) : kw \in Range(Get(CATEGORY_KEYWORDS, category))}
        st == FeatureLoop(features, 1,
                  [keywords |-> from_name \cup from_category,
                   primary_keywords |-> <<>>, secondary_keywords |-> <<>>])
        sorted_keywords == Sorted(st.keywords)
        ios_keyword_string == Join(IosLoop(sorted_keywords, 1, <<>>))
    IN  [all_keywords |-> sorted_keywords,
         primary_keywords |-> Take(st.primary_keywords, 10),
         secondary_keywords |-> Take(st.secondary_keywords, 10),
         ios_keyword_field |-> ios_keyword_string,
         ios_keyword_field_length |-> Len(ios_keyword_string),
         ios_keyword_max |-> IosKeywordMax,
         keyword_count |-> Len(sorted_keywords)]

\* ---- age rating ----------------------------------------------------------
\* next(i for i, r in enumerate(order) if r.startswith(key)); 0 for StopIteration
FirstIndex(order, key) ==
    LET hits == {i \in DOMAIN order : StrPrefix(order[i], key)}
    IN  IF hits = {} THEN 0 ELSE CHOOSE i \in hits : \A j \in hits : i <= j
_higher_rating(order, current, new_val) ==
    LET curr_idx == FirstIndex(order, FirstWord(current))
        new_idx == FirstIndex(order, FirstWord(new_val))
    IN  IF curr_idx = 0 THEN current
        ELSE IF new_idx = 0 THEN current
        ELSE IF new_idx > curr_idx THEN order[new_idx] ELSE order[curr_idx]

RECURSIVE RatingLoop(_, _, _)
\* st = [flags, max_ios, max_android]
RatingLoop(features, i, st) ==
    IF i > Len(features) THEN st
    ELSE LET f_lower == StrStrip(Lower(features[i]))
         IN  IF f_lower \in DOMAIN AGE_RATING_FLAGS
             THEN LET entry == AGE_RATING_FLAGS[f_lower]
                  IN  RatingLoop(features, i + 1,
                          [flags |-> IF entry \notin Range(st.flags)
                                     THEN Append(st.flags, entry) ELSE st.flags,
                           max_ios |-> _higher_rating(IOS_RATING_ORDER, st.max_ios,
                                                      entry.ios_rating),
                           max_android |-> _higher_rating(ANDROID_RATING_ORDER,
                                               st.max_android, entry.android_rating)])
             ELSE RatingLoop(features, i + 1, st)

generate_age_rating(category, features) ==
    LET start == [flags |-> <<>>, max_ios |-> "4+", max_android |-> "Everyone"]
        st0 == IF category \in DOMAIN AGE_RATING_FLAGS
               THEN LET entry == AGE_RATING_FLAGS[category]
                    IN  [flags |-> <<entry>>,
                         max_ios |-> _higher_rating(IOS_RATING_ORDER, start.max_ios,
                                                    entry.ios_rating),
                         max_android |-> _higher_rating(ANDROID_RATING_ORDER,
                                             start.max_android, entry.android_rating)]
               ELSE start
        st == RatingLoop(features, 1, st0)
    IN  [recommended_rating |-> [ios |-> st.max_ios, android |-> st.max_android],
         content_flags |-> st.flags]

\* ---- the calls -----------------------------------------------------------
NoKeywords == generate_keywords("", "", <<>>)
NoRating == generate_age_rating("", <<>>)
\* generate_metadata: the keywords and the age rating of an app
GenerateMetadata ==
    /\ smin.call = "generate_metadata" /\ ~smout.ran
    /\ smout' = [ran |-> TRUE,
                 keywords |-> generate_keywords(smin.app_name, smin.category,
                                                smin.features),
                 age_rating |-> generate_age_rating(smin.category, smin.features),
                 higher |-> ""]
    /\ UNCHANGED <<smin, instVars, valVars, paVars, coVars, ssVars, fmVars, cliVars, parVars>>
\* one call of _higher_rating
HigherRating ==
    /\ smin.call = "_higher_rating" /\ ~smout.ran
    /\ smout' = [ran |-> TRUE, keywords |-> NoKeywords, age_rating |-> NoRating,
                 higher |-> _higher_rating(smin.order, smin.current, smin.new_val)]
    /\ UNCHANGED <<smin, instVars, valVars, paVars, coVars, ssVars, fmVars, cliVars, parVars>>

MaxFeatures == 2    \* features given on the command line
AppNames == {"My App", "Fit-Track_Pro"}
CategoryArgs == {"productivity", "health", "business", "games"}
FeatureArgs == {"offline", "Chat ", "social", "tracking", "workout", "accessibility", "zz"}
RatingArgs(order) == Range(order) \cup {"21+"}
StoreInput(call, app_name, category, features, order, current, new_val) ==
    [given |-> TRUE, call |-> call, app_name |-> app_name, category |-> category,
     features |-> features, order |-> order, current |-> current, new_val |-> new_val]

InitStore ==
    /\ InstIdle /\ ValidatorIdle /\ PaIdle /\ CoIdle /\ SsIdle /\ FmIdle /\ CliIdle /\ ParIdle
    /\ \/ \E a \in AppNames, c \in CategoryArgs, n \in 1..MaxFeatures :
            \E fs \in [1..n -> FeatureArgs] :
               smin = StoreInput("generate_metadata", a, c, fs, <<>>, "", "")
       \/ \E order \in {IOS_RATING_ORDER, ANDROID_RATING_ORDER} :
            \E c \in RatingArgs(order), n \in RatingArgs(order) :
               smin = StoreInput("_higher_rating", "", "", <<>>, order, c, n)
    /\ smout = NotRun
NextStore == GenerateMetadata \/ HigherRating
SpecStore == InitStore /\ [][NextStore]_vars

\* ---- workflows whose jobs depend on one another ----------------------------
MaxChainJobs == 4   \* jobs of a workflow whose dependencies are looked at

\* a workflow with triggers, concurrency and timeouts in place: its jobs are declared
\* in the order build, test, lint, ... and each needs one other job or none
InitChain ==
    /\ InstIdle /\ ValidatorIdle /\ CoIdle /\ SsIdle /\ FmIdle /\ SmIdle /\ CliIdle /\ ParIdle
    /\ \E n \in 0..MaxChainJobs :
         \E needs \in [1..n -> 0..n] :
            /\ \A k \in 1..n : needs[k] # k
            /\ LET js == [k \in 1..n |-> [timeout |-> TRUE, needs |-> needs[k]]]
               IN  wf = [given |-> TRUE, readable |-> TRUE,
                         lines |-> Workflow("filtered", "key", TRUE, js, "none"),
                         conc |-> "key", jobs |-> js]
    /\ wfout = NotRun
NextChain == AnalyzeWorkflow
SpecChain == InitChain /\ [][NextChain]_vars

\* ---- CLAUDE.md files made of sections --------------------------------------
MaxSections == 3    \* sections of a CLAUDE.md whose sizes are looked at

\* a section: a heading line and a paragraph below it
SectionHeadings == {H1Project, H2Overview, H2Testing}
SectionBodies == {ShortLine, LongLine, HugeLine}
RECURSIVE SectionLines(_, _, _)
SectionLines(heads, bodies, k) ==
    IF k > Len(heads) THEN <<>>
    ELSE <<heads[k], bodies[k]>> \o SectionLines(heads, bodies, k + 1)
\* the token limits given for such files
SectionTokenLimits == {0, 400, 1000, DefaultTokenLimit}

InitSections ==
    /\ InstIdle /\ ValidatorIdle /\ PaIdle /\ SsIdle /\ FmIdle /\ SmIdle /\ CliIdle /\ ParIdle
    /\ \E limit \in SectionTokenLimits, n \in 0..MaxSections :
         \E heads \in [1..n -> SectionHeadings], bodies \in [1..n -> SectionBodies] :
            md = [given |-> TRUE, token_limit |-> limit,
                  file |-> [exists |-> TRUE, isFile |-> TRUE,
                            lines |-> SectionLines(heads, bodies, 1)]]
    /\ mdout = NotRun
NextSections == OptimizerMain
SpecSections == InitSections /\ [][NextSections]_vars


(***************************************************************************)
(* Part IX.  Two installer processes on one target directory               *)
(*           (src/scripts/skill-installer.py, cmd_install step by step)    *)
(***************************************************************************)
ParProcs == {1, 2}
OtherProc(p) == 3 - p

\* what cmd_install puts into the manifest it loaded, before it saves it
InstalledWithOnly(m, s, now, auto) ==
    [m EXCEPT !.installed = <<NewEntry(s, now, auto)>>,
              !.auto_update = (m.auto_update \/ auto)]
InstalledWith(m, s, now, auto) ==
    [m EXCEPT !.installed = PutEntry(m.installed, s, NewEntry(s, now, auto)),
              !.auto_update = (m.auto_update \/ auto)]

\* process p moves to pc, holding manifest object m; the step is put on record
ParMove(p, op, pc, m) ==
    par' = [par EXCEPT !.proc[p].pc = pc, !.proc[p].m = m,
                       !.trace = Append(@, [p |-> p, op |-> op])]

\* discover_skills and the search for skill_name
ParFind ==
    \E p \in ParProcs :
        LET me == par.proc[p]
        IN  /\ par.given /\ me.pc = "find"
            /\ ParMove(p, "find",
                       IF me.skill \in Skills /\ repo[me.skill] THEN "load" ELSE "failed", me.m)
            /\ UNCHANGED <<instVars, valVars, paVars, coVars, ssVars, fmVars, smVars, cliVars>>

\* load_manifest and the one-per-group check
ParLoad ==
    \E p \in ParProcs :
        LET me == par.proc[p]
            m == load_manifest(manifest)
        IN  /\ par.given /\ me.pc = "load"
            /\ ParMove(p, "load",
                       IF m.kind = "nonobject" THEN "failed"
                       ELSE IF GroupTaken(GetInstalled(m), me.skill, GroupOf[me.skill])
                       THEN "failed" ELSE "copy", m)
            /\ UNCHANGED <<instVars, valVars, paVars, coVars, ssVars, fmVars, smVars, cliVars>>

\* copy_skill
ParCopy ==
    \E p \in ParProcs :
        LET me == par.proc[p]
        IN  /\ par.given /\ me.pc = "copy"
            /\ dirs' = copy_skill(dirs, PathOf(me.skill))
            /\ ParMove(p, "copy", "save", me.m)
            /\ UNCHANGED <<repo, manifest, clock, last>>
            /\ UNCHANGED <<valVars, paVars, coVars, ssVars, fmVars, smVars, cliVars>>

\* now(), the new entry, save_manifest
ParSave ==
    \E p \in ParProcs :
        LET me == par.proc[p]
        IN  /\ par.given /\ me.pc = "save"
            /\ clock' = clock + 1
            /\ IF ~me.m.hasInstalled              \* manifest["installed"]: KeyError
               THEN /\ ParMove(p, "save", "failed", me.m)
                    /\ UNCHANGED manifest
               ELSE /\ ParMove(p, "save", "done", InstalledWith(me.m, me.skill, clock, me.auto))
                    /\ manifest' = save_manifest(InstalledWith(me.m, me.skill, clock, me.auto))
            /\ UNCHANGED <<repo, dirs, last>>
            /\ UNCHANGED <<valVars, paVars, coVars, ssVars, fmVars, smVars, cliVars>>

\* process 1 installs a skill of group A, process 2 the skill of group B
ParSkills == [p \in ParProcs |-> IF p = 1 THEN {"a1", "a2"} ELSE {"b1"}]
InitPar ==
    /\ repo = InitRepo
    /\ dirs = NoDirs
    /\ manifest \in StartManifests
    /\ clock = 1
    /\ last = Idle
    /\ ValidatorIdle /\ PaIdle /\ CoIdle /\ SsIdle /\ FmIdle /\ SmIdle /\ CliIdle
    /\ \E s1 \in ParSkills[1], s2 \in ParSkills[2], a1 \in BOOLEAN, a2 \in BOOLEAN :
          par = [given |-> TRUE,
                 proc |-> [p \in ParProcs |->
                             [pc |-> "find",
                              skill |-> IF p = 1 THEN s1 ELSE s2,
                              auto |-> IF p = 1 THEN a1 ELSE a2,
                              m |-> DefaultManifest]],
                 trace |-> <<>>]
NextPar == ParFind \/ ParLoad \/ ParCopy \/ ParSave
SpecPar == InitPar /\ [][NextPar]_vars

(***************************************************************************)
(* Properties                                                              *)
(***************************************************************************)
Installed == GetInstalled(load_manifest(manifest))
InstalledNames == Names(Installed)
SetOf(seq) == {seq[i] : i \in 1..Len(seq)}
NoDuplicates(seq) == Cardinality(SetOf(seq)) = Len(seq)

\* the previous invocation was a successful `install s`: it stamped the entry of s
\* with the last value the clock handed out, and no other call of now() followed
JustInstalled(s) ==
    /\ last.cmd = "install" /\ last.exit = 0
    /\ manifest.kind = "object"
    /\ s \in InstalledNames
    /\ EntryOf(Installed, s).installed_at = clock - 1

\* C1: a successful `install s` followed by `uninstall s`, from any starting
\* manifest and target directory, succeeds and leaves the manifest without the
\* key s and the target directory without the directory s.
C1_RoundTrip ==
    [][\A s \in Skills :
          JustInstalled(s) /\ Uninstall(s, 0, "gone")
          => /\ last'.exit = 0
             /\ manifest'.kind = "object"
             /\ s \notin Names(GetInstalled(manifest'))
             /\ dirs'[s] = "none"]_vars

\* an uninstall has just undone the one install made since the start
C1_Witness ==
    /\ last.cmd = "uninstall" /\ last.exit = 0
    /\ clock = 2
    /\ manifest.kind = "object" /\ manifest.installed = <<>>
    /\ dirs = NoDirs

\* no two installed skills have the same group
OneSkillPerGroup ==
    \A i, j \in 1..Len(Installed) :
        i # j => Installed[i].group # Installed[j].group

\* C2: from an absent manifest, with install never given --force, no two keys of
\* `installed` ever have the same group, and an install of a skill whose group is
\* taken by another installed skill exits 1 and changes nothing.
C2_OnePerGroup ==
    /\ []OneSkillPerGroup
    /\ [][\A s \in Skills, auto \in BOOLEAN :
             /\ repo[s]
             /\ \E i \in 1..Len(Installed) :
                   Installed[i].group = GroupOf[s] /\ Installed[i].name # s
             /\ Install(s, auto, FALSE, 0, "gone")
             => last'.exit = 1 /\ manifest' = manifest /\ dirs' = dirs]_vars

\* an install was refused because of the group, a skill of each group being installed
C2_Witness ==
    /\ last.cmd = "install" /\ last.exit = 1 /\ last.io = <<"load">>
    /\ {Installed[i].group : i \in 1..Len(Installed)} = Groups

\* C3 (as claimed): `update` without a skill name re-copies every installed skill
\* whose source exists and gives it a new updated_at, whatever its auto_update flag.
C3_UpdateAllUpdatesAll ==
    [][last'.cmd = "update" /\ last'.exit = 0 /\ Update(NoArg, 0, "gone")
       => \A i \in 1..Len(Installed) :
             repo[Installed[i].name]
             => /\ dirs'[Installed[i].name] = "fresh"
                /\ manifest'.installed[i].updated_at > Installed[i].updated_at
                /\ Installed[i].name \in SetOf(last'.updated)]_vars

\* the installed skills `update` without a name is to update: auto_update, source exists
Updatable ==
    {Installed[i].name : i \in {j \in 1..Len(Installed) :
        Installed[j].auto_update /\ repo[Installed[j].name]}}

C5_AllOrNothing ==
    [][Invocation /\ last'.exit = 1 => manifest' = manifest /\ dirs' = dirs]_vars

\* C6 (as claimed): every command exits 0 or 1, and exits 1 on an unknown group, a
\* skill not in the repository, a same-group conflict without --force, an update
\* with nothing installed, and an update or uninstall of a skill not installed.
C6_ExitStatus ==
    [][/\ Invocation => last'.exit \in {0, 1}
       /\ \A g \in GroupArgs :
             List(g) /\ g # NoArg /\ g \notin DOMAIN discover_skills(repo)
             => last'.exit = 1
       /\ \A s \in SkillArgs, auto \in BOOLEAN :
             /\ Install(s, auto, FALSE, 0, "gone")
             /\ \/ s \notin Skills
                \/ ~repo[s]
                \/ \E i \in 1..Len(Installed) :
                      Installed[i].group = GroupOf[s] /\ Installed[i].name # s
             => last'.exit = 1
       /\ \A f \in SkillArgs \cup {NoArg} :
             /\ Update(f, 0, "gone")
             /\ Installed = <<>> \/ (f # NoArg /\ f \notin InstalledNames)
             => last'.exit = 1
       /\ \A s \in SkillArgs :
             Uninstall(s, 0, "gone") /\ s \notin InstalledNames
             => last'.exit = 1]_vars

\* C7: an invocation loads the manifest at most once and saves it at most once, a
\* save comes after the load, and an invocation that exits with an error saved nothing.
C7_ManifestIO ==
    /\ last.io \in {<<>>, <<"load">>, <<"load", "save">>}
    /\ last.exit = 1 => "save" \notin SetOf(last.io)

\* an uninstall of a skill that is not installed ended in an error after its load,
\* the manifest having been saved by earlier invocations
C7_Witness ==
    /\ last.cmd = "uninstall" /\ last.exit = 1 /\ last.io = <<"load">>
    /\ manifest.kind = "object" /\ manifest.installed # <<>>

\* C8 (as claimed): whatever the manifest file holds, no command ends in an
\* uncaught exception.
C8_NoUncaughtException == ~last.raised

FailedWith(checks, sev) ==
    \E i \in 1..Len(checks) : ~checks[i].passed /\ checks[i].severity = sev

C10_Verdict ==
    vout.hasReport
    => /\ vout.report.compatible
          <=> /\ ~FailedWith(vout.report.checks, "error")
              /\ vstrict => ~FailedWith(vout.report.checks, "warning")
       /\ vout.exit = 1 <=> ~vout.report.compatible
       /\ vout.exit \in {0, 1}

\* --strict turned a report with warnings and info findings but no error into exit 1
C10_Witness ==
    /\ vout.hasReport /\ vstrict
    /\ ~FailedWith(vout.report.checks, "error")
    /\ FailedWith(vout.report.checks, "warning")
    /\ FailedWith(vout.report.checks, "info")
    /\ ~vout.report.compatible /\ vout.exit = 1

\* ---- pipeline analyzer ----------------------------------------------------
CostWarnings == SelectSeq(wfout.findings, LAMBDA f : f.severity = "warning" /\ f.category = "cost")
ConcurrencyWarnings == SelectSeq(wfout.findings, LAMBDA f : f.title = "No concurrency group")
JobsWithoutTimeout == {k \in DOMAIN wf.jobs : ~wf.jobs[k].timeout}

Analyzed == mdout.ran /\ mdout.result.success
HasRec(category) ==
    \E i \in DOMAIN mdout.result.recommendations :
        mdout.result.recommendations[i].category = category

\* C12: when the estimated token count is under the limit the report says
\* within_budget and recommends neither token_budget nor hierarchical_loading; and a
\* token_budget recommendation is present exactly when the estimate exceeds the limit.
C12_WithinBudget ==
    Analyzed =>
        LET m == mdout.result.metrics
        IN  /\ m.token_estimate < m.token_limit =>
                  m.within_budget /\ ~HasRec("token_budget") /\ ~HasRec("hierarchical_loading")
            /\ HasRec("token_budget") <=> m.token_estimate > m.token_limit
C12_Witness ==
    /\ Analyzed
    /\ mdout.result.metrics.token_estimate = 12 /\ md.token_limit = 12
    /\ mdout.result.metrics.within_budget /\ ~HasRec("token_budget")

\* ---- skill scaffolder -----------------------------------------------------
Underscored(name) == [i \in DOMAIN name |-> IF name[i] = "-" THEN "_" ELSE name[i]]
PathKinds(entries) == {[path |-> e.path, kind |-> e.kind] : e \in entries}
\* the package of skill N: N, its three directories and its four files
PackageOf(N) ==
    {[path |-> <<N>>, kind |-> "dir"],
     [path |-> <<N, <<"scripts">>>>, kind |-> "dir"],
     [path |-> <<N, <<"references">>>>, kind |-> "dir"],
     [path |-> <<N, <<"assets">>>>, kind |-> "dir"],
     [path |-> <<N, <<"SKILL.md">>>>, kind |-> "file"],
     [path |-> <<N, <<"scripts">>, Underscored(N) \o <<"_tool.py">>>>, kind |-> "file"],
     [path |-> <<N, <<"references">>, <<"guide.md">>>>, kind |-> "file"],
     [path |-> <<N, <<"assets">>, <<".gitkeep">>>>, kind |-> "file"]}

\* C13: a run with a valid name N, an existing output directory and no N in it
\* succeeds and adds to the output directory exactly N with the directories scripts,
\* references and assets and the files SKILL.md, scripts/<N with _ for ->_tool.py,
\* references/guide.md and assets/.gitkeep; every entry that was there stays as it was.
C13_ScaffoldCreates ==
    [][(/\ sout'.ran
        /\ validate_skill_name(sout'.skill_name) = NoError
        /\ sfs.out = "dir"
        /\ ~Exists(sfs.tree, <<sout'.skill_name>>))
       => /\ sout'.exit = 0 /\ sout'.result.success
          /\ sfs.tree \subseteq sfs'.tree
          /\ PathKinds(sfs'.tree \ sfs.tree) = PackageOf(sout'.skill_name)
          /\ Len(sout'.result.directories_created) = 3
          /\ Len(sout'.result.files_created) = 4]_vars
C13_Witness ==
    /\ sout.ran /\ sout.exit = 0 /\ sout.skill_name = <<"a", "-", "b">>
    /\ \E e \in sfs.tree :
          /\ e.path = <<<<"a", "-", "b">>, <<"scripts">>, <<"a", "_", "b", "_tool.py">>>>
          /\ e.kind = "file"
    /\ Exists(sfs.tree, <<<<"a">>>>)

\* C14: a run whose target directory exists already fails with exit status 1 and
\* success false, and leaves the output directory exactly as it was: nothing is
\* created, overwritten or deleted. A second run with the same name is such a run.
C14_ExistingTargetUntouched ==
    [][(/\ sout'.ran
        /\ sfs.out = "dir"
        /\ Exists(sfs.tree, <<sout'.skill_name>>))
       => /\ sfs' = sfs
          /\ sout'.exit = 1 /\ ~sout'.result.success /\ ~sout'.raised]_vars
\* the second of two runs with the name a-b has failed; the first run's package is there
C14_Witness ==
    /\ sout.ran /\ sout.exit = 1 /\ ~sout.raised /\ sout.skill_name = <<"a", "-", "b">>
    /\ sout.printed = "json result"
    /\ PackageOf(<<"a", "-", "b">>) \subseteq PathKinds(sfs.tree)


\* ---- the frontmatter parsers --------------------------------------------
\* what each of the three parsers returned for the text given
FmParsers == {"converter", "validator", "index"}
\* the text starts with the three characters of the delimiter
TextStartsWithDelimiter ==
    /\ fmtext.lines # <<>> /\ fmtext.lines[1].indent = 0
    /\ Len(fmtext.lines[1].text) >= 3 /\ SubSeq(fmtext.lines[1].text, 1, 3) = "---"
\* a line after the first is `---`, with nothing before or after it
LaterLineEqualToDelimiter ==
    \E i \in 2..Len(fmtext.lines) :
        fmtext.lines[i].indent = 0 /\ fmtext.lines[i].text = "---"
\* a line after the first is `---` once the whitespace around it is removed
LaterLineStripsToDelimiter ==
    \E i \in 2..Len(fmtext.lines) : fmtext.lines[i].text = "---"
AllEmptyAndNotValid ==
    /\ \A p \in FmParsers : fmout[p].map = EmptyMap
    /\ ~fmout.validator.valid

\* C15 as stated: no parser raises, and a text that does not start with `---` or has
\* no later line equal to `---` gives an empty mapping from each parser and is
\* reported as not valid by the validator.
C15_EmptyWithoutDelimiters ==
    fmout.ran =>
        /\ \A p \in FmParsers : ~fmout[p].raised
        /\ (~TextStartsWithDelimiter \/ ~LaterLineEqualToDelimiter) => AllEmptyAndNotValid

\* C15, amended: no parser raises, and a text that does not start with `---` or has
\* no later line that is `---` after the whitespace around it is stripped gives an
\* empty mapping from each parser and is reported as not valid by the validator.
C15_EmptyWithoutStrippedDelimiters ==
    fmout.ran =>
        /\ \A p \in FmParsers : ~fmout[p].raised
        /\ (~TextStartsWithDelimiter \/ ~LaterLineStripsToDelimiter) => AllEmptyAndNotValid

\* an opened block with a key in it that is never closed: nothing is returned
C15_Witness ==
    /\ fmout.ran /\ TextStartsWithDelimiter /\ ~LaterLineStripsToDelimiter
    /\ \E i \in 2..Len(fmtext.lines) : fmtext.lines[i].kind = "kv"
    /\ AllEmptyAndNotValid

\* the lines between the opening line and the closing delimiter
BlockLines ==
    LET hits == {i \in 2..Len(fmtext.lines) : fmtext.lines[i].text = "---"}
    IN  IF ~TextStartsWithDelimiter \/ hits = {} THEN <<>>
        ELSE SubSeq(fmtext.lines, 2, (CHOOSE i \in hits : \A j \in hits : i <= j) - 1)
\* the last line of the block that writes key k without indentation; 0 for none
LastZeroIndent(k) ==
    LET at == {i \in DOMAIN BlockLines : /\ BlockLines[i].kind = "kv"
                                         /\ BlockLines[i].indent = 0
                                         /\ BlockLines[i].key = k}
    IN  IF at = {} THEN 0 ELSE CHOOSE i \in at : \A j \in at : j <= i
FmKeys == {"name", "description", "license", "metadata", "version"}

\* C16: in the converter and the index builder, a key written without indentation
\* and with a scalar value has a string value in the result, and a key has a
\* dictionary only if it was last written without indentation and with no value.
C16_ScalarKeysStayScalar ==
    fmout.ran =>
        \A p \in {"converter", "index"} : \A k \in DOMAIN fmout[p].map :
            /\ LastZeroIndent(k) # 0
            /\ BlockLines[LastZeroIndent(k)].value # "" => IsStr(fmout[p].map, k)
            /\ IsDict(fmout[p].map, k) => BlockLines[LastZeroIndent(k)].value = ""

\* the stripped texts of the lines joined by single spaces
RECURSIVE JoinStripped(_)
JoinStripped(lines) ==
    IF lines = <<>> THEN ""
    ELSE IF Len(lines) = 1 THEN lines[1].text
    ELSE lines[1].text \o " " \o JoinStripped(Tail(lines))
\* the block is a `description:` with a block-scalar indicator and then indented
\* lines of text only
IsBlockScalarDescription ==
    /\ Len(BlockLines) >= 2
    /\ BlockLines[1].kind = "kv" /\ BlockLines[1].indent = 0
    /\ BlockLines[1].key = "description" /\ BlockLines[1].value \in {">", ">-", "|", "|-"}
    /\ \A i \in 2..Len(BlockLines) :
          /\ BlockLines[i].indent > 0 /\ BlockLines[i].kind = "other"
          /\ BlockLines[i].text # "" /\ ~IsComment(BlockLines[i])
\* the block is made of `key: value` lines without indentation only
IsFlat ==
    /\ BlockLines # <<>>
    /\ \A i \in DOMAIN BlockLines :
          /\ BlockLines[i].kind = "kv" /\ BlockLines[i].indent = 0
          /\ BlockLines[i].value \notin {"", ">", ">-", "|", "|-"}

\* C17: the three parsers agree: of a block-scalar description each returns the
\* indented lines' stripped text joined by single spaces, without the indicator, and
\* of a block of flat `key: value` lines they return equal mappings.
C17_ParsersAgree ==
    fmout.ran =>
        /\ IsBlockScalarDescription =>
              \A p \in FmParsers :
                  /\ IsStr(fmout[p].map, "description")
                  /\ fmout[p].map["description"].str = JoinStripped(Tail(BlockLines))
        /\ IsFlat => /\ fmout.converter.map = fmout.validator.map
                     /\ fmout.validator.map = fmout.index.map


\* ---- the output of a rejected invocation ---------------------------------
\* C18: in each tool with a --json flag, an invocation that the tool's check of its
\* input rejects exits with status 1 and writes a JSON document to standard output
\* when --json is set, and a message for people when it is not.
C18_UniformFailureOutput ==
    (cli.ran /\ cli.rejected) =>
        /\ cli.exit = 1
        /\ cli.json => cli.stdout \in {"json error", "json result"}
        /\ ~cli.json => "text error" \in {cli.stdout, cli.stderr}


\* ---- store metadata ------------------------------------------------------
\* the place of a rating in an order; 0 if it is not one of its ratings
IndexIn(order, rating) ==
    IF rating \in Range(order) THEN CHOOSE i \in DOMAIN order : order[i] = rating ELSE 0
\* C19: for each rating order and every pair (current, new) of its ratings,
\* _higher_rating returns the one of the two with the larger index in the order.
C19_HigherRating ==
    (/\ smout.ran /\ smin.call = "_higher_rating"
     /\ smin.current \in Range(smin.order) /\ smin.new_val \in Range(smin.order)) =>
        LET c == IndexIn(smin.order, smin.current)
            n == IndexIn(smin.order, smin.new_val)
        IN  smout.higher = smin.order[IF n > c THEN n ELSE c]

\* the keywords before and after place k of all_keywords
KeywordPrefix(k) == SubSeq(smout.keywords.all_keywords, 1, k)
Fits(list) == Len(Join(list)) <= 100
\* C20: the iOS keyword field has at most 100 characters; all_keywords is sorted by
\* length, then alphabetically; the field is the comma-join of the longest prefix of
\* all_keywords whose join fits in 100 characters; no keyword outside that prefix
\* could have been appended without exceeding 100; and ios_keyword_field_length is
\* the length of the field.
C20_KeywordField ==
    (smout.ran /\ smin.call = "generate_metadata") =>
        LET kws == smout.keywords
            all == kws.all_keywords
            field == kws.ios_keyword_field
        IN  /\ Len(field) <= 100
            /\ \A i \in DOMAIN all : \A j \in DOMAIN all :
                  i < j => \/ Len(all[i]) < Len(all[j])
                           \/ Len(all[i]) = Len(all[j]) /\ StrLess(all[i], all[j])
            /\ \E k \in 0..Len(all) :
                  /\ field = Join(KeywordPrefix(k))
                  /\ \A n \in 0..Len(all) : Fits(KeywordPrefix(n)) => n <= k
                  /\ \A i \in (k + 1)..Len(all) : ~Fits(Append(KeywordPrefix(k), all[i]))
            /\ kws.ios_keyword_field_length = Len(field)

\* some keywords are left out of the field, which is not empty
C20_Witness ==
    /\ smout.ran /\ smin.call = "generate_metadata"
    /\ smout.keywords.ios_keyword_field # ""
    /\ Len(smout.keywords.ios_keyword_field) > 90
    /\ smout.keywords.keyword_count > 20
    /\ \E k \in 1..(smout.keywords.keyword_count - 1) :
          smout.keywords.ios_keyword_field = Join(KeywordPrefix(k))


\* ---- long sequential chains ------------------------------------------------
\* the jobs that need no other job
ChainRoots == {k \in DOMAIN wf.jobs : wf.jobs[k].needs = 0}
ChildrenOf(k) == {j \in DOMAIN wf.jobs : wf.jobs[j].needs = k}
\* the jobs from job k on, each needing the one before it, at most m of them
RECURSIVE OrderFrom(_, _)
OrderFrom(k, m) ==
    IF m = 0 THEN <<>>
    ELSE IF Cardinality(ChildrenOf(k)) # 1 THEN <<k>>
    ELSE <<k>> \o OrderFrom(CHOOSE j \in ChildrenOf(k) : TRUE, m - 1)
DependencyOrder ==
    IF Cardinality(ChainRoots) = 1
    THEN OrderFrom(CHOOSE k \in ChainRoots : TRUE, Len(wf.jobs)) ELSE <<>>
\* all the jobs of the workflow, four or more, form one linear chain
IsLongLinearChain ==
    /\ wf.readable /\ Len(wf.jobs) >= 4
    /\ Len(DependencyOrder) = Len(wf.jobs)
ChainReports ==
    SelectSeq(wfout.findings, LAMBDA f : f.title = "Long sequential chain detected")

\* C21: when the jobs of a workflow form a linear dependency chain of four or more
\* jobs, the analyzer returns exactly one info/performance finding 'Long sequential
\* chain detected' that lists the chain in dependency order, in whatever order the
\* jobs are declared.
C21_LongChainReported ==
    (wfout.ran /\ IsLongLinearChain) =>
        /\ Len(ChainReports) = 1
        /\ ChainReports[1].severity = "info" /\ ChainReports[1].category = "performance"
        /\ ChainReports[1].about = [i \in DOMAIN DependencyOrder |-> JobName[DependencyOrder[i]]]


\* ---- skill names -----------------------------------------------------------
\* a name that is not empty, is made of alphanumeric characters and hyphens only,
\* neither starts nor ends with a hyphen and has no two hyphens in a row
WellFormedName(name) ==
    /\ Len(name) > 0
    /\ \A i \in 1..Len(name) : name[i] = "-" \/ IsAlnum(name[i])
    /\ name[1] # "-" /\ name[Len(name)] # "-"
    /\ ~\E i \in 1..(Len(name) - 1) : <<name[i], name[i + 1]>> = <<"-", "-">>

\* C22: validate_skill_name accepts exactly the well-formed names; for every other
\* name the scaffolder prints an error and exits 1, and the output directory is as it
\* was before the invocation.
C22_NameValidation ==
    [][sout'.ran =>
          LET name == sout'.skill_name
          IN  /\ (validate_skill_name(name) = NoError) <=> WellFormedName(name)
              /\ ~WellFormedName(name) =>
                    /\ sout'.exit = 1 /\ ~sout'.raised
                    /\ sout'.printed \in {"json error", "text error"}
                    /\ sout'.result = NoResult
                    /\ sfs' = sfs]_vars

\* a name with two hyphens in a row was refused and nothing was created
C22_Witness ==
    /\ sout.ran /\ sout.skill_name = <<"a", "-", "-", "b">>
    /\ sout.exit = 1 /\ sout.printed = "json error"
    /\ sfs.out = "dir" /\ sfs.tree = {}


\* ---- hierarchical loading --------------------------------------------------
\* the sections that can be moved: level 2 and more than 200 estimated tokens
MovableSections ==
    {i \in DOMAIN mdout.result.sections :
        /\ mdout.result.sections[i].level = 2
        /\ mdout.result.sections[i].token_estimate > 200}
\* the tokens of the suggestions from the second one to the i-th
RECURSIVE MovedUpTo(_)
MovedUpTo(i) ==
    IF i < 2 THEN 0 ELSE mdout.result.hierarchical[i].tokens + MovedUpTo(i - 1)
AtMost(a, b) == IF a <= b THEN a ELSE b

\* C23: when the token estimate exceeds the limit, the first suggestion states the
\* overage; the suggestions after it each name a level-2 section of more than 200
\* tokens, largest first, and are the largest such sections; a section is suggested
\* only while the tokens of the sections named before it are below the overage, and
\* the list ends only when the overage is covered or no such section is left.
C23_HierarchicalLoading ==
    (Analyzed /\ mdout.result.metrics.token_estimate > mdout.result.metrics.token_limit) =>
        LET h == mdout.result.hierarchical
            sections == mdout.result.sections
            overage == mdout.result.metrics.token_estimate - mdout.result.metrics.token_limit
            moves == 2..Len(h)
        IN  /\ Len(h) >= 1 /\ h[1].kind = "over" /\ h[1].tokens = overage
            /\ \A i \in moves :
                  /\ h[i].kind = "move"
                  /\ \E s \in MovableSections :
                        /\ sections[s].title = h[i].title
                        /\ sections[s].token_estimate = h[i].tokens
                  /\ i > 2 => h[i - 1].tokens >= h[i].tokens
                  /\ MovedUpTo(i - 1) < overage
            /\ \A s \in MovableSections :
                  LET t == sections[s].token_estimate
                  IN  Cardinality({i \in moves : h[i].tokens >= t})
                      = AtMost(Len(h) - 1,
                               Cardinality({x \in MovableSections :
                                               sections[x].token_estimate >= t}))
            /\ MovedUpTo(Len(h)) >= overage \/ Len(h) - 1 = Cardinality(MovableSections)

\* two sections cover the overage, the larger one named first, and a third one that
\* could be moved is not named
C23_Witness ==
    /\ Analyzed
    /\ mdout.result.metrics.token_estimate > mdout.result.metrics.token_limit
    /\ Len(mdout.result.hierarchical) = 3
    /\ mdout.result.hierarchical[2].tokens > mdout.result.hierarchical[3].tokens
    /\ Cardinality(MovableSections) = 3
    /\ mdout.result.sections[1].token_estimate < mdout.result.sections[2].token_estimate


\* ---- what update leaves alone ----------------------------------------------
\* entry i of the manifest is the same before and after the step, but for updated_at
SameButUpdatedAt(i) ==
    LET old == manifest.installed[i]
        new == manifest'.installed[i]
    IN  /\ new.name = old.name /\ new.group = old.group /\ new.path = old.path
        /\ new.installed_at = old.installed_at /\ new.auto_update = old.auto_update
        /\ new.has \ {"updated_at"} = old.has \ {"updated_at"}
UpdatedAtChanged(i) ==
    \/ manifest'.installed[i].updated_at # manifest.installed[i].updated_at
    \/ manifest'.installed[i].has # manifest.installed[i].has

\* C24: an update, with or without a skill name, leaves the keys of `installed` and
\* every entry's group, path, installed_at and auto_update as they were, and the
\* top-level auto_update and source too; it changes updated_at only of skills it
\* reports as updated, and the directories of the skills it reports as skipped are
\* as they were.
C24_UpdateFrame ==
    [][last'.cmd = "update" /\ (CmdUpdate \/ CmdUpdateFault) =>
          /\ manifest'.kind = manifest.kind
          /\ manifest'.hasInstalled = manifest.hasInstalled
          /\ manifest'.auto_update = manifest.auto_update
          /\ manifest'.source = manifest.source
          /\ Len(manifest'.installed) = Len(manifest.installed)
          /\ \A i \in 1..Len(manifest.installed) :
                /\ SameButUpdatedAt(i)
                /\ UpdatedAtChanged(i) =>
                      /\ last'.exit = 0
                      /\ \E j \in 1..Len(last'.updated) :
                            last'.updated[j] = manifest.installed[i].name
          /\ \A j \in 1..Len(last'.skipped) :
                dirs'[last'.skipped[j]] = dirs[last'.skipped[j]]]_vars

\* an update has refreshed one skill and stamped it, and skipped another whose
\* directory is out of date, in a project whose manifest is set to auto-update
C24_Witness ==
    /\ last.cmd = "update" /\ last.exit = 0
    /\ last.updated = <<"a1">> /\ last.skipped = <<"b1">>
    /\ dirs["a1"] = "fresh" /\ dirs["b1"] = "stale"
    /\ manifest.auto_update
    /\ manifest.installed[1].updated_at # manifest.installed[1].installed_at


\* ---- two installs at once ---------------------------------------------------
ParBothDone == par.given /\ \A p \in ParProcs : par.proc[p].pc = "done"
ParHasBoth == \A p \in ParProcs : par.proc[p].skill \in InstalledNames
ParStepAt(p, op) == CHOOSE i \in 1..Len(par.trace) : par.trace[i] = [p |-> p, op |-> op]
\* one of the two loaded the manifest only after the other had saved it
ParLoadedAfterSave ==
    \E p \in ParProcs : ParStepAt(p, "save") < ParStepAt(OtherProc(p), "load")

\* C25 as stated: when two installs of skills of different groups have both
\* completed, whatever the order of their steps, the manifest lists both skills.
C25_BothInstalled == ParBothDone => ParHasBoth

\* C25: when two installs of skills of different groups have both completed and
\* the one that saved last had loaded the manifest after the other's save, the
\* manifest lists both skills.
C25_BothInstalledWhenLoadedAfterSave ==
    (ParBothDone /\ ParLoadedAfterSave) => ParHasBoth

\* both processes had started before either saved, the second loaded after the
\* first's save, and both are done
C25_Witness ==
    /\ ParBothDone /\ ParLoadedAfterSave
    /\ {par.trace[1].p, par.trace[2].p} = ParProcs
    /\ manifest.kind = "object"
    /\ Len(manifest.installed) = 2
====
